---- MODULE Spec2Model ----
(***************************************************************************)
(* A model of git-commit-mining: gitlyze.py (the per-commit metrics        *)
(* pipeline), gitanalyses.py (the analyzers), sizeandcomplexity.py (the    *)
(* incremental size/complexity aggregator), levenshtein.py (the edit       *)
(* distance of a commit) and find-complex-functions.py (the finder).       *)
(*                                                                         *)
(* A behaviour first authors a repository history (GitCommit), then one    *)
(* of the two programs is run on it: its createDataSet, its analyzers and  *)
(* its tabulate, in the order of the program's gitlyze function.           *)
(***************************************************************************)
EXTENDS Integers, Sequences, FiniteSets, TLC

VARIABLES
    log,                     \* repo.iter_commits(branch): the commits, newest first
    program,                 \* the script that runs
    pc,                      \* position of the run in gitlyze
    pipeline,                \* the calls of gitlyze still to be made
    message,                 \* what error() printed ("" when nothing)
    startTime, endTime, activeCommitterInterval,
    filtered_authors, filtered_commits, filtered_files,
    ac,                      \* the AnnotatedCommit objects, by position in rawCommits
    data,                    \* createDataSet's result: the analyzable sequence
    i,                       \* the loop counter of the analyzer that is running
    previous_tree,           \* analyzeSizeAndComplexity: the baseline snapshot
    previous_commit,         \* analyzeSizeAndComplexity: totals of the previous commit
    previous_function_complexities,
                             \* analyzeComplexFunctionsContributions: the map
    walk,                    \* a windowed analyzer: previous, cutOff and committers
    complex_functions,       \* find_complex_functions: the result map
    table                    \* tabulate's result

vars == <<log, program, pc, pipeline, message, startTime, endTime, activeCommitterInterval,
          filtered_authors, filtered_commits, filtered_files, ac, data, i, previous_tree,
          previous_commit, previous_function_complexities, walk, complex_functions,
          table>>

runArgs == <<startTime, endTime, activeCommitterInterval, filtered_authors,
             filtered_commits, filtered_files>>

-----------------------------------------------------------------------------
(* Bounds of the model.                                                    *)

\* commits in a history of the activity model, the root included
MaxCommits == 3
\* commits in a history of the size model, the root included
MaxSizeCommits == 4
\* commits in a history of the edit-distance model, the root included
MaxDistCommits == 3
\* commits in a history of the finder model, the root included
MaxFindCommits == 3
\* commits in a history of the snapshot model, the root included
MaxSnapCommits == 2
\* commits in a history of the contribution model, the root included
MaxContributionCommits == 3
\* commits in a history of the hunk model, the root included
MaxHunkCommits == 3
\* commits in a history of the pipeline model, the root included
MaxPipelineCommits == 3
\* commits in a history of the walk model, the root included
MaxWalkCommits == 3

\* Python's None. Every number the program stores is far above it.
None == -1000

SecondsPerDay == 60 * 60 * 24
TimeUnit == SecondsPerDay \div 2

\* main(): activeCommitterIntervalArg = 30
activeCommitterIntervalArg == 30

\* The inputs of the activity model: committed dates half a day apart and a
\* date a month later, the authors, the -i argument in days, and the -af and
\* -cf filters.
Dates == {0, TimeUnit, 2 * TimeUnit, 31 * SecondsPerDay}
Authors == {"alice", "bot"}
IntervalDays == {1, 32}
Filters == {<<{}, {}>>, <<{"bot"}, {}>>, <<{}, {2}>>}

-----------------------------------------------------------------------------
(* Files.  A path is a name and an extension; a blob is the list of the    *)
(* functions lizard finds in it, the number of its lines and its text.     *)

Path(name, ext) == [name |-> name, ext |-> ext]

SupportedExtensions == {"c"}

\* extensions.extension_supported
extension_supported(path) == path.ext \in SupportedExtensions

Fn(name, nloc, cc) == [name |-> name, nloc |-> nloc, cyclomatic_complexity |-> cc]

\* The blobs of the histories. 0 is "no file at this path".
\*   1: a 10-line file that is one function f of complexity 3
\*   2: blob 1 with f grown by two lines, complexity 20
\*   3: blob 1 with two lines added outside f, and f changed to complexity 20
\*   4, 5: two short texts (no function), for the edit distance
\*   6: blob 2 with f changed to complexity 25
\*   7: a file that is one function c.f of complexity 18
\*   8, 9: blob 1 with f at complexity 11, and at complexity 12
\*   10: blob 2 with a second function g of complexity 30
\*   11: a file with two functions of the name f (overloads), 20 and then 5
\*   12, 13, 14: texts of the lines a, k, b; of k, ab; and of k alone
NoBlob == 0
Blob(b) ==
    CASE b = 1 -> [lines |-> 10, function_list |-> <<Fn("f", 10, 3)>>, text |-> <<>>]
      [] b = 2 -> [lines |-> 12, function_list |-> <<Fn("f", 12, 20)>>, text |-> <<>>]
      [] b = 3 -> [lines |-> 12, function_list |-> <<Fn("f", 10, 20)>>, text |-> <<>>]
      [] b = 4 -> [lines |-> 2, function_list |-> <<>>,
                   text |-> << <<"x", "y">>, <<"z">> >>]
      [] b = 5 -> [lines |-> 2, function_list |-> <<>>,
                   text |-> << <<"x", "z">>, <<"z">> >>]
      [] b = 6 -> [lines |-> 12, function_list |-> <<Fn("f", 12, 25)>>, text |-> <<>>]
      [] b = 7 -> [lines |-> 6, function_list |-> <<Fn("c.f", 6, 18)>>, text |-> <<>>]
      [] b = 8 -> [lines |-> 10, function_list |-> <<Fn("f", 10, 11)>>, text |-> <<>>]
      [] b = 9 -> [lines |-> 10, function_list |-> <<Fn("f", 10, 12)>>, text |-> <<>>]
      [] b = 10 -> [lines |-> 20,
                    function_list |-> <<Fn("f", 12, 20), Fn("g", 8, 30)>>, text |-> <<>>]
      [] b = 11 -> [lines |-> 20,
                    function_list |-> <<Fn("f", 12, 20), Fn("f", 8, 5)>>, text |-> <<>>]
      [] b = 12 -> [lines |-> 3, function_list |-> <<>>,
                    text |-> << <<"a">>, <<"k">>, <<"b">> >>]
      [] b = 13 -> [lines |-> 2, function_list |-> <<>>,
                    text |-> << <<"k">>, <<"a", "b">> >>]
      [] b = 14 -> [lines |-> 1, function_list |-> <<>>, text |-> << <<"k">> >>]

-----------------------------------------------------------------------------
(* The repository.  A commit is known by its position in the history,      *)
(* oldest = 1; its first parent is the commit before it.                   *)

Reverse(s) == [k \in 1..Len(s) |-> s[Len(s) + 1 - k]]

\* gitlyze.py:62, list(reversed(list(repo.iter_commits(branch))))
rawCommits == Reverse(log)

Commit(hexsha, date, author, parents, tree) ==
    [hexsha |-> hexsha, committed_date |-> date, author |-> author,
     parents |-> parents, tree |-> tree]

\* The parents of the next commit of the history: none for the root, the
\* commit before it otherwise, and a second, older one for a merge.
ParentChoices(n, merges) ==
    IF n = 1 THEN {<<>>}
    ELSE {<<n - 1>>} \cup IF merges /\ n > 2 THEN {<<n - 1, n - 2>>} ELSE {}

AllPaths == {Path("a", "c"), Path("b", "c"), Path("a.c", "c"), Path("r", "md")}

EmptyTree == [p \in AllPaths |-> NoBlob]

\* The trees a commit on top of a commit with tree `parent` can have, when it
\* touches only `paths` and writes only `blobs`: the same tree (an empty
\* commit), one file added, modified or deleted, or one file renamed; or,
\* when `combined`, any number of such changes at once.
NextTrees(parent, paths, blobs, combined) ==
    IF combined
    THEN {tree \in [AllPaths -> blobs \cup {NoBlob}] :
             \A p \in AllPaths \ paths : tree[p] = parent[p]}
    ELSE {parent}
         \cup {[parent EXCEPT ![p] = b] : p \in paths, b \in blobs \cup {NoBlob}}
         \cup {[parent EXCEPT ![p] = NoBlob, ![q] = parent[p]] :
                 p \in {x \in paths : parent[x] # NoBlob},
                 q \in {x \in paths : parent[x] = NoBlob}}

\* git commit: one more commit on the branch.
GitCommitOf(maxCommits, dates, authors, merges, paths, blobs, combined) ==
    /\ pc = "repo"
    /\ Len(log) < maxCommits
    /\ \E date \in dates, author \in authors :
         \E parents \in ParentChoices(Len(log) + 1, merges) :
            \E tree \in NextTrees(IF log = <<>> THEN EmptyTree ELSE Head(log).tree,
                                  paths, blobs, combined) :
               log' = <<Commit(Len(log) + 1, date, author, parents, tree)>> \o log
    /\ UNCHANGED <<program, pc, pipeline, message, runArgs, ac, data, i,
                   previous_tree, previous_commit, previous_function_complexities, walk,
                   complex_functions, table>>

-----------------------------------------------------------------------------
(* AnnotatedCommit.py                                                      *)

AnnotatedCommit(commit) ==
    [commit |-> commit,
     numberOfActiveDevelopers |-> None,
     daysSincePreviousCommitByDeveloper |-> None,
     numberOfCommitsInLast24h |-> None,
     levenshteinDistance |-> None,
     loc |-> None,
     deltaLoc |-> None,
     cyclomaticComplexity |-> None,
     deltaCyclomaticComplexity |-> None,
     increaseOfComplexityInComplexFunctions |-> None,
     decreaseOfComplexityInComplexFunctions |-> None,
     functions |-> None,
     deltaFunctions |-> None,
     previous |-> None,
     next |-> None]

-----------------------------------------------------------------------------
(* gitlyze.py: the arguments and createDataSet                             *)

Max(a, b) == IF a >= b THEN a ELSE b

parseEndTime(start, arg) == Max(start, start + arg * 60 * 60 * 24)

parseActiveCommiterInterval(arg) == Max(0, arg * 60 * 60 * 24)

\* filters.filter_match
filter_match(commit, authors, commits) ==
    commit.author \in authors \/ commit.hexsha \in commits

\* createDataSet with an interval that is closed at its end.
Included_inclusiveEnd(commit) ==
    /\ commit.committed_date > startTime
    /\ commit.committed_date <= endTime
    /\ Len(commit.parents) = 1
    /\ ~filter_match(commit, filtered_authors, filtered_commits)

\* The condition under which createDataSet appends a record to data.
Included(commit) ==
    /\ commit.committed_date > startTime
    /\ commit.committed_date < endTime
    /\ Len(commit.parents) = 1
    /\ ~filter_match(commit, filtered_authors, filtered_commits)

\* createDataSet without the assignment to previous.next.
LinkNext_unlinked(records, previous, k) == records

\* Lines 73-74: previous.next = current, for the record made at index k.
LinkNext(records, previous, k) ==
    IF previous # None THEN [records EXCEPT ![previous].next = k] ELSE records

\* The loop of createDataSet from index k on: records are the AnnotatedCommit
\* objects made so far, dat the data list, current the last object made.
RECURSIVE createDataSetLoop(_, _, _, _)
createDataSetLoop(k, records, dat, current) ==
    IF k > Len(rawCommits) THEN [records |-> records, data |-> dat]
    ELSE LET previous == current
             made == [AnnotatedCommit(rawCommits[k]) EXCEPT !.previous = previous]
             linked == LinkNext(records, previous, k)
             all == [r \in 1..k |-> IF r = k THEN made ELSE linked[r]]
         IN createDataSetLoop(k + 1, all,
                              IF Included(made.commit) THEN Append(dat, k) ELSE dat,
                              k)

NoCommitsFound == "No commits found"
GitCommandFailed == "Git command failed"

\* A call of gitlyze returns: the run goes on to the next call.
Return ==
    /\ pc' = IF pipeline = <<>> THEN "done" ELSE Head(pipeline)
    /\ pipeline' = IF pipeline = <<>> THEN pipeline ELSE Tail(pipeline)

\* error() that prints the message and returns to its caller.
error_returns(m) ==
    /\ message' = m
    /\ Return

\* error(): print the message and sys.exit(1).
error(m) ==
    /\ message' = m
    /\ pc' = "error"
    /\ UNCHANGED pipeline

\* createDataSet: the chain over the whole log and the data list, or error().
createDataSet ==
    /\ pc = "createDataSet"
    /\ \/ /\ error(GitCommandFailed)
          /\ UNCHANGED <<ac, data>>
       \/ LET built == createDataSetLoop(1, <<>>, <<>>, None)
          IN /\ ac' = built.records
             /\ data' = built.data
             /\ IF Len(built.data) = 0
                THEN error(NoCommitsFound)
                ELSE message' = message /\ Return
    /\ UNCHANGED <<log, program, runArgs, i, previous_tree, previous_commit,
                   previous_function_complexities, walk,
                   complex_functions, table>>

-----------------------------------------------------------------------------
(* gitanalyses.py: the windowed analyzers                                  *)

\* The records of data, as a set.
DataSet == {data[k] : k \in 1..Len(data)}

\* Python's int(x / d) for d > 0: the quotient, rounded towards zero.
PyInt(x, d) == IF x >= 0 THEN x \div d ELSE -((-x) \div d)

\* The walk that passes over a record outside the window and goes on.
RECURSIVE WalkCommitters_throughWindow(_, _, _)
WalkCommitters_throughWindow(previous, cutOff, committers) ==
    IF previous # None
    THEN WalkCommitters_throughWindow(
            ac[previous].previous, cutOff,
            IF ac[previous].commit.committed_date > cutOff
            THEN committers \cup {ac[previous].commit.author} ELSE committers)
    ELSE committers

\* The while loop of analyzeNumberOfActiveDevelopers.
RECURSIVE WalkCommitters(_, _, _)
WalkCommitters(previous, cutOff, committers) ==
    IF previous # None /\ ac[previous].commit.committed_date > cutOff
    THEN WalkCommitters(ac[previous].previous, cutOff,
                        committers \cup {ac[previous].commit.author})
    ELSE committers

\* analyzeNumberOfActiveDevelopers with the cut-off after the commit.
NumberOfActiveDevelopers_cutOffAhead(c, interval) ==
    Cardinality(WalkCommitters(ac[c].previous,
                               ac[c].commit.committed_date + interval, {}))

\* What analyzeNumberOfActiveDevelopers stores on c, for a given interval.
NumberOfActiveDevelopers(c, interval) ==
    Cardinality(WalkCommitters(ac[c].previous,
                               ac[c].commit.committed_date - interval, {}))

\* The while loop of analyzeDaysSincePreviousCommit: the value it stores on c,
\* or what the field held when no record by the same author is reached.
RECURSIVE WalkSameAuthor(_, _, _)
WalkSameAuthor(previous, cutOff, c) ==
    IF previous # None /\ ac[previous].commit.committed_date > cutOff
    THEN IF ac[previous].commit.author = ac[c].commit.author
         THEN PyInt(ac[c].commit.committed_date - ac[previous].commit.committed_date,
                    60 * 60 * 24)
         ELSE WalkSameAuthor(ac[previous].previous, cutOff, c)
    ELSE ac[c].daysSincePreviousCommitByDeveloper

DaysSincePreviousCommit(c, interval) ==
    WalkSameAuthor(ac[c].previous, ac[c].commit.committed_date - interval, c)

\* analyzeNumberOfCommitsInSameDay counting the analyzable records only.
RECURSIVE WalkCount_analyzableOnly(_, _, _)
WalkCount_analyzableOnly(previous, cutOff, count) ==
    IF previous # None /\ ac[previous].commit.committed_date > cutOff
    THEN WalkCount_analyzableOnly(ac[previous].previous, cutOff,
                                  IF Included(ac[previous].commit) THEN count + 1 ELSE count)
    ELSE count

\* The while loop of analyzeNumberOfCommitsInSameDay.
RECURSIVE WalkCount(_, _, _)
WalkCount(previous, cutOff, count) ==
    IF previous # None /\ ac[previous].commit.committed_date > cutOff
    THEN WalkCount(ac[previous].previous, cutOff, count + 1)
    ELSE count

NumberOfCommitsInSameDay(c) ==
    WalkCount(ac[c].previous, ac[c].commit.committed_date - 60 * 60 * 24, 0)

analyzeNumberOfActiveDevelopers ==
    /\ pc = "analyzeNumberOfActiveDevelopers"
    /\ ac' = [c \in DOMAIN ac |->
                IF c \in DataSet
                THEN [ac[c] EXCEPT !.numberOfActiveDevelopers =
                                     NumberOfActiveDevelopers(c, activeCommitterInterval)]
                ELSE ac[c]]
    /\ Return
    /\ UNCHANGED <<log, program, message, runArgs, data, i, previous_tree, previous_commit,
                   previous_function_complexities, walk,
                   complex_functions, table>>

analyzeDaysSincePreviousCommit ==
    /\ pc = "analyzeDaysSincePreviousCommit"
    /\ ac' = [c \in DOMAIN ac |->
                IF c \in DataSet
                THEN [ac[c] EXCEPT !.daysSincePreviousCommitByDeveloper =
                                     DaysSincePreviousCommit(c, activeCommitterInterval)]
                ELSE ac[c]]
    /\ Return
    /\ UNCHANGED <<log, program, message, runArgs, data, i, previous_tree, previous_commit,
                   previous_function_complexities, walk,
                   complex_functions, table>>

\* analyzeNumberOfCommitsInSameDay that also clears the days since the
\* previous commit of the records it visits.
analyzeNumberOfCommitsInSameDay_clearsDays ==
    /\ pc = "analyzeNumberOfCommitsInSameDay"
    /\ ac' = [c \in DOMAIN ac |->
                IF c \in DataSet
                THEN [ac[c] EXCEPT !.numberOfCommitsInLast24h =
                                     NumberOfCommitsInSameDay(c),
                                   !.daysSincePreviousCommitByDeveloper = None]
                ELSE ac[c]]
    /\ Return
    /\ UNCHANGED <<log, program, message, runArgs, data, i, previous_tree, previous_commit,
                   previous_function_complexities, walk,
                   complex_functions, table>>

analyzeNumberOfCommitsInSameDay ==
    /\ pc = "analyzeNumberOfCommitsInSameDay"
    /\ ac' = [c \in DOMAIN ac |->
                IF c \in DataSet
                THEN [ac[c] EXCEPT !.numberOfCommitsInLast24h =
                                     NumberOfCommitsInSameDay(c)]
                ELSE ac[c]]
    /\ Return
    /\ UNCHANGED <<log, program, message, runArgs, data, i, previous_tree, previous_commit,
                   previous_function_complexities, walk,
                   complex_functions, table>>

-----------------------------------------------------------------------------
(* The version-control provider: commit.parents[0].diff(commit)            *)

DiffEntry(change_type, a_path, b_path, a_blob, b_blob) ==
    [change_type |-> change_type, a_path |-> a_path, b_path |-> b_path,
     a_blob |-> a_blob, b_blob |-> b_blob]

\* change_type.startswith("R"): git's R<score> is written "R" here.
Renamed(change_type) == change_type = "R"

\* A path that is gone and a path that is new with the same blob are one
\* rename (GitPython asks git for rename detection), when the pairing is
\* the only possible one.
RenamePairs(a, b) ==
    LET gone == {p \in AllPaths : a[p] # NoBlob /\ b[p] = NoBlob}
        new == {q \in AllPaths : a[q] = NoBlob /\ b[q] # NoBlob}
        cand == {pq \in gone \X new : a[pq[1]] = b[pq[2]]}
    IN {pq \in cand : \A o \in cand : (o[1] = pq[1] \/ o[2] = pq[2]) => o = pq}

\* The file-level diffs between tree a (the parent's) and tree b.
Diff(a, b) ==
    LET renames == RenamePairs(a, b)
        from == {pq[1] : pq \in renames}
        to == {pq[2] : pq \in renames}
    IN {DiffEntry("R", pq[1], pq[2], a[pq[1]], b[pq[2]]) : pq \in renames}
       \cup {DiffEntry("A", p, p, None, b[p]) :
               p \in {q \in AllPaths \ to : a[q] = NoBlob /\ b[q] # NoBlob}}
       \cup {DiffEntry("D", p, p, a[p], None) :
               p \in {q \in AllPaths \ from : a[q] # NoBlob /\ b[q] = NoBlob}}
       \cup {DiffEntry("M", p, p, a[p], b[p]) :
               p \in {q \in AllPaths : a[q] # NoBlob /\ b[q] # NoBlob /\ a[q] # b[q]}}

\* commit.parents[0].tree
ParentTree(commit) == rawCommits[commit.parents[1]].tree

\* commit.parents[0].diff(commit)
CommitDiff(commit) == Diff(ParentTree(commit), commit.tree)

-----------------------------------------------------------------------------
(* sizeandcomplexity.py                                                    *)

BlobStats(loc, cc, functions) ==
    [loc |-> loc, cyclomaticComplexity |-> cc, functions |-> functions]

\* The value tree_delta stores for a deleted path (None in the code).
Deleted == BlobStats(None, None, None)

\* `if blobstats:` of the code
Truthy(blobstats) == blobstats # Deleted

RECURSIVE SumStats(_, _)
SumStats(function_list, k) ==
    IF k > Len(function_list) THEN BlobStats(0, 0, 0)
    ELSE LET rest == SumStats(function_list, k + 1)
         IN BlobStats(rest.loc + function_list[k].nloc,
                      rest.cyclomaticComplexity + function_list[k].cyclomatic_complexity,
                      rest.functions + 1)

\* blob_stats: the sums over the functions lizard finds in the blob
blob_stats(blob) == SumStats(Blob(blob).function_list, 1)

\* analyze_tree: path -> stats of every supported file of the tree
analyze_tree(tree) ==
    [p \in {q \in AllPaths : tree[q] # NoBlob /\ extension_supported(q)} |->
        blob_stats(tree[p])]

\* tree_delta: path -> new stats, or Deleted, from the diff against parents[0]
tree_delta(commitB) ==
    LET diffs == CommitDiff(commitB)
        measured == {d \in diffs :
                       /\ \/ d.change_type = "A" \/ d.change_type = "M"
                          \/ Renamed(d.change_type)
                       /\ extension_supported(d.b_path)}
        removed == {d \in diffs :
                      /\ d.change_type = "D" \/ Renamed(d.change_type)
                      /\ extension_supported(d.a_path)}
    IN [p \in {d.b_path : d \in measured} \cup {d.a_path : d \in removed} |->
          IF \E d \in measured : d.b_path = p
          THEN blob_stats((CHOOSE d \in measured : d.b_path = p).b_blob)
          ELSE Deleted]

\* aggregate_delta: the loop over delta_tree.items(), for the paths still to do
RECURSIVE aggregate_delta_loop(_, _, _)
aggregate_delta_loop(paths, tree, delta_tree) ==
    IF paths = {} THEN BlobStats(0, 0, 0)
    ELSE LET path == CHOOSE p \in paths : TRUE
             rest == aggregate_delta_loop(paths \ {path}, tree, delta_tree)
             minus == IF path \in DOMAIN tree THEN tree[path] ELSE BlobStats(0, 0, 0)
             plus == IF Truthy(delta_tree[path]) THEN delta_tree[path]
                     ELSE BlobStats(0, 0, 0)
         IN BlobStats(rest.loc - minus.loc + plus.loc,
                      rest.cyclomaticComplexity - minus.cyclomaticComplexity
                         + plus.cyclomaticComplexity,
                      rest.functions - minus.functions + plus.functions)

\* A slip in aggregate_delta: the stats the snapshot holds are not subtracted.
aggregate_delta_noSubtract(tree, delta_tree) ==
    aggregate_delta_loop(DOMAIN delta_tree, <<>>, delta_tree)

aggregate_delta(tree, delta_tree) ==
    aggregate_delta_loop(DOMAIN delta_tree, tree, delta_tree)

RECURSIVE aggregate_stats_loop(_, _)
aggregate_stats_loop(names, blobs) ==
    IF names = {} THEN BlobStats(0, 0, 0)
    ELSE LET blobname == CHOOSE p \in names : TRUE
             rest == aggregate_stats_loop(names \ {blobname}, blobs)
         IN BlobStats(rest.loc + blobs[blobname].loc,
                      rest.cyclomaticComplexity + blobs[blobname].cyclomaticComplexity,
                      rest.functions + blobs[blobname].functions)

aggregate_stats_from_blobs(blobs) == aggregate_stats_loop(DOMAIN blobs, blobs)

\* apply_delta_to_tree that stores the measured paths and pops none.
apply_delta_to_tree_noPop(tree, delta_tree) ==
    [p \in DOMAIN tree \cup {q \in DOMAIN delta_tree : Truthy(delta_tree[q])} |->
        IF p \in DOMAIN delta_tree /\ Truthy(delta_tree[p])
        THEN delta_tree[p] ELSE tree[p]]

\* apply_delta_to_tree that pops the deleted paths and stores nothing.
apply_delta_to_tree_popOnly(tree, delta_tree) ==
    [p \in DOMAIN tree \ {q \in DOMAIN delta_tree : ~Truthy(delta_tree[q])} |-> tree[p]]

\* apply_delta_to_tree: pop the deleted paths, store the measured ones
apply_delta_to_tree(tree, delta_tree) ==
    [p \in (DOMAIN tree \ {q \in DOMAIN delta_tree : ~Truthy(delta_tree[q])})
           \cup {q \in DOMAIN delta_tree : Truthy(delta_tree[q])} |->
        IF p \in DOMAIN delta_tree THEN delta_tree[p] ELSE tree[p]]

-----------------------------------------------------------------------------
(* gitanalyses.py: analyzeSizeAndComplexity                                *)

\* A slip in lines 100-105: the complexity total is taken from the lines total.
RecordSizeAndComplexity_wrongTotal(record, prev, delta) ==
    [record EXCEPT !.loc = prev.loc + delta.loc,
                   !.deltaLoc = delta.loc,
                   !.cyclomaticComplexity = prev.loc + delta.cyclomaticComplexity,
                   !.deltaCyclomaticComplexity = delta.cyclomaticComplexity,
                   !.functions = prev.functions + delta.functions,
                   !.deltaFunctions = delta.functions]

\* Lines 100-105: the totals and the deltas stored on record c.
RecordSizeAndComplexity(record, prev, delta) ==
    [record EXCEPT !.loc = prev.loc + delta.loc,
                   !.deltaLoc = delta.loc,
                   !.cyclomaticComplexity =
                       prev.cyclomaticComplexity + delta.cyclomaticComplexity,
                   !.deltaCyclomaticComplexity = delta.cyclomaticComplexity,
                   !.functions = prev.functions + delta.functions,
                   !.deltaFunctions = delta.functions]

\* Lines 83-88: the baseline, from the tree of the parent of the first commit.
analyzeSizeAndComplexity ==
    /\ pc = "analyzeSizeAndComplexity"
    /\ IF Len(data) = 0
       THEN Return /\ UNCHANGED <<i, previous_tree, previous_commit>>
       ELSE LET tree == analyze_tree(ParentTree(ac[data[1]].commit))
            IN /\ previous_tree' = tree
               /\ previous_commit' = aggregate_stats_from_blobs(tree)
               /\ i' = 0
               /\ pc' = "analyzeSizeAndComplexity.for"
               /\ UNCHANGED pipeline
    /\ UNCHANGED <<log, program, message, runArgs, ac, data,
                   previous_function_complexities, walk, complex_functions, table>>

\* Lines 92-108: one pass of the loop over data.
analyzeSizeAndComplexityStep ==
    /\ pc = "analyzeSizeAndComplexity.for"
    /\ LET c == data[i + 1]
           delta_tree == tree_delta(ac[c].commit)
           delta == aggregate_delta(previous_tree, delta_tree)
           record == RecordSizeAndComplexity(ac[c], previous_commit, delta)
       IN /\ ac' = [ac EXCEPT ![c] = record]
          /\ previous_commit' =
                BlobStats(record.loc, record.cyclomaticComplexity, record.functions)
          /\ previous_tree' = apply_delta_to_tree(previous_tree, delta_tree)
    /\ i' = i + 1
    /\ IF i + 1 = Len(data) THEN Return ELSE UNCHANGED <<pc, pipeline>>
    /\ UNCHANGED <<log, program, message, runArgs, data,
                   previous_function_complexities, walk, complex_functions, table>>

-----------------------------------------------------------------------------
(* levenshtein.py                                                          *)

\* A text is a sequence of lines, a line a sequence of characters.

RECURSIVE Concat(_)
Concat(lines) == IF lines = <<>> THEN <<>> ELSE Head(lines) \o Concat(Tail(lines))

\* blob_size: the length of the decoded content, one newline per line
blob_size(blob) ==
    Len(Concat(Blob(blob).text)) + Len(Blob(blob).text)

\* The length of the longest common subsequence of the lines of two texts.
RECURSIVE LcsLength(_, _)
LcsLength(x, y) ==
    IF x = <<>> \/ y = <<>> THEN 0
    ELSE IF Head(x) = Head(y) THEN 1 + LcsLength(Tail(x), Tail(y))
    ELSE LET skipX == LcsLength(Tail(x), y)
             skipY == LcsLength(x, Tail(y))
         IN IF skipX >= skipY THEN skipX ELSE skipY

\* The lines of a hunk that turns x into y with the fewest changes: a shared
\* line is context (" "), a line of x alone is removed ("-"), a line of y
\* alone is added ("+"); between two context lines the removed lines come
\* before the added ones.
RECURSIVE EditScript(_, _)
EditScript(x, y) ==
    IF x = <<>> THEN [k \in 1..Len(y) |-> <<"+">> \o y[k]]
    ELSE IF y = <<>> THEN [k \in 1..Len(x) |-> <<"-">> \o x[k]]
    ELSE IF Head(x) = Head(y)
    THEN << <<" ">> \o Head(x) >> \o EditScript(Tail(x), Tail(y))
    ELSE IF LcsLength(Tail(x), y) >= LcsLength(x, Tail(y))
    THEN << <<"-">> \o Head(x) >> \o EditScript(Tail(x), y)
    ELSE << <<"+">> \o Head(y) >> \o EditScript(x, Tail(y))

\* git --no-pager diff file_a file_b, split at "\n": nothing for equal
\* texts; otherwise the header lines and one hunk (the texts are shorter
\* than the context git prints around a change), and the empty string after
\* the last newline.
GitDiff(x, y) ==
    IF x = y THEN << <<>> >>
    ELSE << <<"d", "i", "f", "f">>, <<"i", "n", "d", "e", "x">>,
            <<"-", "-", "-", " ", "a">>, <<"+", "+", "+", " ", "b">>,
            <<"@", "@">> >>
         \o EditScript(x, y)
         \o << <<>> >>

\* line.startswith(prefix)
startswith(line, prefix) ==
    Len(line) >= Len(prefix) /\ SubSeq(line, 1, Len(prefix)) = prefix

Min3(a, b, c) ==
    IF a <= b /\ a <= c THEN a ELSE IF b <= c THEN b ELSE c

\* editdistance.eval: the Levenshtein distance
RECURSIVE editdistance(_, _)
editdistance(x, y) ==
    IF x = <<>> THEN Len(y)
    ELSE IF y = <<>> THEN Len(x)
    ELSE Min3(editdistance(Tail(x), y) + 1,
              editdistance(x, Tail(y)) + 1,
              editdistance(Tail(x), Tail(y)) + IF Head(x) = Head(y) THEN 0 ELSE 1)

\* The loop of blob_delta over the lines of the diff, from line k on.
RECURSIVE blob_delta_loop(_, _, _, _, _, _)
blob_delta_loop(diff, k, contentA, contentB, previous_line_was_plus, aggregatedDistance) ==
    IF k > Len(diff)
    THEN aggregatedDistance + editdistance(contentA, contentB)
    ELSE LET line == diff[k]
         IN IF startswith(line, <<"-", "-", "-">>) \/ startswith(line, <<"+", "+", "+">>)
            THEN blob_delta_loop(diff, k + 1, contentA, contentB,
                                 previous_line_was_plus, aggregatedDistance)
            ELSE LET a == IF startswith(line, <<"-">>)
                          THEN contentA \o Tail(line) ELSE contentA
                 IN IF startswith(line, <<"+">>)
                    THEN blob_delta_loop(diff, k + 1, a, contentB \o Tail(line),
                                         TRUE, aggregatedDistance)
                    ELSE IF previous_line_was_plus
                    THEN blob_delta_loop(diff, k + 1, <<>>, <<>>, FALSE,
                                         aggregatedDistance + editdistance(a, contentB))
                    ELSE blob_delta_loop(diff, k + 1, a, contentB, FALSE,
                                         aggregatedDistance)

\* blob_delta, of the blobs the two file names denote
blob_delta(file_a, file_b) ==
    blob_delta_loop(GitDiff(Blob(file_a).text, Blob(file_b).text), 1,
                    <<>>, <<>>, FALSE, 0)

\* commitDistance without the checks of the extension.
DiffDistance_anyExtension(diff) ==
    (IF diff.change_type = "A" THEN blob_size(diff.b_blob) ELSE 0)
    + (IF diff.change_type = "M" \/ Renamed(diff.change_type)
       THEN blob_delta(diff.a_blob, diff.b_blob) ELSE 0)
    + (IF diff.change_type = "D" THEN blob_size(diff.a_blob) ELSE 0)

\* One pass of the loop of commitDistance: what diff adds to aggregated_delta.
DiffDistance(diff) ==
    (IF diff.change_type = "A" /\ extension_supported(diff.b_path)
     THEN blob_size(diff.b_blob) ELSE 0)
    + (IF (diff.change_type = "M" \/ Renamed(diff.change_type))
          /\ extension_supported(diff.b_path)
       THEN blob_delta(diff.a_blob, diff.b_blob) ELSE 0)
    + (IF diff.change_type = "D" /\ extension_supported(diff.a_path)
       THEN blob_size(diff.a_blob) ELSE 0)

RECURSIVE commitDistanceLoop(_)
commitDistanceLoop(diffs) ==
    IF diffs = {} THEN 0
    ELSE LET diff == CHOOSE d \in diffs : TRUE
         IN DiffDistance(diff) + commitDistanceLoop(diffs \ {diff})

commitDistance(commit) == commitDistanceLoop(CommitDiff(commit))

\* gitanalyses.py: analyzeLevenshteinDistance
analyzeLevenshteinDistance ==
    /\ pc = "analyzeLevenshteinDistance"
    /\ ac' = [c \in DOMAIN ac |->
                IF c \in DataSet /\ ac[c].previous # None
                THEN [ac[c] EXCEPT !.levenshteinDistance = commitDistance(ac[c].commit)]
                ELSE ac[c]]
    /\ Return
    /\ UNCHANGED <<log, program, message, runArgs, data, i, previous_tree, previous_commit,
                   previous_function_complexities, walk,
                   complex_functions, table>>

-----------------------------------------------------------------------------
(* gitlyze.py: tabulate                                                    *)

\* The header row: the column titles, and the interval in days two of them name.
Header(interval) ==
    <<"Commit", "Author name", "Commit timestamp", "Number of active developers",
      "Days since previous commit by developer", PyInt(interval, 24 * 60 * 60),
      "Number of commits in last 24h", "Levenshtein distance", "Lines of code",
      "Cyclomatic complexity", "Number of functions", "Delta lines of code",
      "Delta cyclomatic complexity", "Delta number of functions",
      "Increase in complex functions", "Decrease in complex functions">>

Row(c) ==
    <<c.commit.hexsha, c.commit.author, c.commit.committed_date,
      c.numberOfActiveDevelopers, c.daysSincePreviousCommitByDeveloper,
      c.numberOfCommitsInLast24h, c.levenshteinDistance, c.loc,
      c.cyclomaticComplexity, c.functions, c.deltaLoc, c.deltaCyclomaticComplexity,
      c.deltaFunctions, c.increaseOfComplexityInComplexFunctions,
      c.decreaseOfComplexityInComplexFunctions>>

\* The rows tabulate appends for data[k..].
RECURSIVE tabulateLoop(_)
tabulateLoop(k) ==
    IF k > Len(data) THEN <<>>
    ELSE IF ac[data[k]].levenshteinDistance = 0 THEN tabulateLoop(k + 1)
    ELSE <<Row(ac[data[k]])>> \o tabulateLoop(k + 1)

tabulate ==
    /\ pc = "tabulate"
    /\ table' = <<Header(activeCommitterInterval)>> \o tabulateLoop(1)
    /\ Return
    /\ UNCHANGED <<log, program, message, runArgs, ac, data, i, previous_tree, previous_commit,
                   previous_function_complexities, walk,
                   complex_functions>>

-----------------------------------------------------------------------------
(* find-complex-functions.py                                               *)

\* append_blobs: the supported blobs of a tree, each with its path
append_blobs(tree) ==
    {[path |-> p, blob |-> tree[p]] :
        p \in {q \in AllPaths : tree[q] # NoBlob /\ extension_supported(q)}}

\* The blobs find_complex_functions scans for the k-th commit of data.
blobs_to_scan(k, commit) ==
    IF k = 1 THEN append_blobs(commit.tree)
    ELSE {[path |-> d.b_path, blob |-> d.b_blob] :
            d \in {e \in CommitDiff(commit) :
                     e.b_blob # None /\ extension_supported(e.b_path)}}

\* blob.path, the string
path_string(path) == path.name \o "." \o path.ext

\* Line 138: blob.path + "." + function.name
distinguished_name(path, name) == path_string(path) \o "." \o name

\* Lines 137-142 storing the complexity measured last.
ScanFunction_lastWins(found, path, function) ==
    IF function.cyclomatic_complexity > 15
    THEN LET distinguished_function_name == distinguished_name(path, function.name)
         IN [n \in DOMAIN found \cup {distinguished_function_name} |->
                IF n = distinguished_function_name
                THEN function.cyclomatic_complexity ELSE found[n]]
    ELSE found

\* The scan without the threshold: every function is recorded.
ScanFunction_anyComplexity(found, path, function) ==
    LET distinguished_function_name == distinguished_name(path, function.name)
    IN IF distinguished_function_name \in DOMAIN found
       THEN [found EXCEPT ![distinguished_function_name] =
                Max(function.cyclomatic_complexity, found[distinguished_function_name])]
       ELSE [n \in DOMAIN found \cup {distinguished_function_name} |->
                IF n = distinguished_function_name
                THEN function.cyclomatic_complexity ELSE found[n]]

\* Lines 137-142: one function of a scanned blob.
ScanFunction(found, path, function) ==
    IF function.cyclomatic_complexity > 15
    THEN LET distinguished_function_name == distinguished_name(path, function.name)
         IN IF distinguished_function_name \in DOMAIN found
            THEN [found EXCEPT ![distinguished_function_name] =
                     Max(function.cyclomatic_complexity, found[distinguished_function_name])]
            ELSE [n \in DOMAIN found \cup {distinguished_function_name} |->
                     IF n = distinguished_function_name
                     THEN function.cyclomatic_complexity ELSE found[n]]
    ELSE found

RECURSIVE ScanFunctions(_, _, _, _)
ScanFunctions(found, path, function_list, k) ==
    IF k > Len(function_list) THEN found
    ELSE ScanFunctions(ScanFunction(found, path, function_list[k]), path,
                       function_list, k + 1)

\* Lines 131-142: the loop over blobs_to_scan.
RECURSIVE ScanBlobs(_, _)
ScanBlobs(found, blobs) ==
    IF blobs = {} THEN found
    ELSE LET blob == CHOOSE b \in blobs : TRUE
             scanned == IF blob.path \in filtered_files THEN found
                        ELSE ScanFunctions(found, blob.path,
                                           Blob(blob.blob).function_list, 1)
         IN ScanBlobs(scanned, blobs \ {blob})

find_complex_functions ==
    /\ pc = "find_complex_functions"
    /\ complex_functions' = <<>>
    /\ i' = 0
    /\ IF Len(data) = 0 THEN Return
       ELSE pc' = "find_complex_functions.for" /\ UNCHANGED pipeline
    /\ UNCHANGED <<log, program, message, runArgs, ac, data, previous_tree, previous_commit,
                   previous_function_complexities, walk,
                   table>>

find_complex_functionsStep ==
    /\ pc = "find_complex_functions.for"
    /\ complex_functions' =
          ScanBlobs(complex_functions, blobs_to_scan(i + 1, ac[data[i + 1]].commit))
    /\ i' = i + 1
    /\ IF i + 1 = Len(data) THEN Return ELSE UNCHANGED <<pc, pipeline>>
    /\ UNCHANGED <<log, program, message, runArgs, ac, data, previous_tree, previous_commit,
                   previous_function_complexities, walk,
                   table>>

-----------------------------------------------------------------------------
(* gitanalyses.py: analyzeComplexFunctionsContributions                    *)

\* all_blobs_in_tree: path -> blob for every supported file of the tree
all_blobs_in_tree(tree) ==
    [p \in {q \in AllPaths : tree[q] # NoBlob /\ extension_supported(q)} |-> tree[p]]

\* all_blobs_modified_by_commit that passes over the renamed files.
all_blobs_modified_by_commit_noRenames(commit) ==
    LET diffs == {d \in CommitDiff(commit) :
                    /\ d.b_blob # None /\ extension_supported(d.b_path)
                    /\ ~Renamed(d.change_type)}
    IN [p \in {d.b_path : d \in diffs} |->
          (CHOOSE d \in diffs : d.b_path = p).b_blob]

\* all_blobs_modified_by_commit: path -> blob for every entry of the diff
\* against parents[0] that has a new blob at a supported path
all_blobs_modified_by_commit(commit) ==
    LET diffs == {d \in CommitDiff(commit) :
                    d.b_blob # None /\ extension_supported(d.b_path)}
    IN [p \in {d.b_path : d \in diffs} |->
          (CHOOSE d \in diffs : d.b_path = p).b_blob]

\* dict[key] = value
Put(dict, key, value) ==
    [k \in DOMAIN dict \cup {key} |-> IF k = key THEN value ELSE dict[k]]

\* The blobs of a tree are visited in the order of their paths.
PathOrder == <<Path("a", "c"), Path("a.c", "c"), Path("b", "c"), Path("r", "md")>>

\* sizeandcomplexity.py:138-139, the functions of one blob from the k-th on
RECURSIVE calculate_function_complexities_blob(_, _, _, _)
calculate_function_complexities_blob(function_complexities, path, function_list, k) ==
    IF k > Len(function_list) THEN function_complexities
    ELSE calculate_function_complexities_blob(
            Put(function_complexities,
                distinguished_name(path, function_list[k].name),
                function_list[k].cyclomatic_complexity),
            path, function_list, k + 1)

RECURSIVE calculate_function_complexities_loop(_, _, _)
calculate_function_complexities_loop(function_complexities, tree, k) ==
    IF k > Len(PathOrder) THEN function_complexities
    ELSE LET path == PathOrder[k]
         IN calculate_function_complexities_loop(
               IF path \in DOMAIN tree
               THEN calculate_function_complexities_blob(
                       function_complexities, path, Blob(tree[path]).function_list, 1)
               ELSE function_complexities,
               tree, k + 1)

\* calculate_function_complexities: path.name -> complexity, over the blobs
calculate_function_complexities(tree) ==
    calculate_function_complexities_loop(<<>>, tree, 1)

\* `function in complex_functions`, complex_functions being a list
InList(x, list) == \E k \in DOMAIN list : list[k] = x

\* A slip in the accumulation: the amount is stored, never added.
Accumulate_overwrite(field, amount) == amount

\* `if commit.field: commit.field += amount else: commit.field = amount`
Accumulate(field, amount) ==
    IF field # None /\ field # 0 THEN field + amount ELSE amount

\* The threshold of lines 147 and 154.
ComplexityThreshold == 11

\* The update without the threshold: any rise or fall is attributed.
update_complex_function_contribution_of_commit_noThreshold(function_complexities, function, complexity, commit) ==
    LET previous_complexity ==
            IF function \in DOMAIN function_complexities
            THEN function_complexities[function] ELSE 0
        decreased ==
            IF previous_complexity > complexity
            THEN [commit EXCEPT !.decreaseOfComplexityInComplexFunctions =
                     Accumulate(@, previous_complexity - complexity)]
            ELSE commit
    IN IF complexity > previous_complexity
       THEN [decreased EXCEPT !.increaseOfComplexityInComplexFunctions =
                Accumulate(@, complexity - previous_complexity)]
       ELSE decreased

\* The update whose decrease branch does not compare the two values.
update_complex_function_contribution_of_commit_unsigned(function_complexities, function, complexity, commit) ==
    LET previous_complexity ==
            IF function \in DOMAIN function_complexities
            THEN function_complexities[function] ELSE 0
        decreased ==
            IF previous_complexity > ComplexityThreshold
            THEN [commit EXCEPT !.decreaseOfComplexityInComplexFunctions =
                     Accumulate(@, previous_complexity - complexity)]
            ELSE commit
    IN IF complexity > ComplexityThreshold /\ complexity > previous_complexity
       THEN [decreased EXCEPT !.increaseOfComplexityInComplexFunctions =
                Accumulate(@, complexity - previous_complexity)]
       ELSE decreased

\* update_complex_function_contribution_of_commit: the record of the commit
\* after one measured function of the known list
update_complex_function_contribution_of_commit(function_complexities, function, complexity, commit) ==
    LET previous_complexity ==
            IF function \in DOMAIN function_complexities
            THEN function_complexities[function] ELSE 0
        decreased ==
            IF /\ previous_complexity > ComplexityThreshold
               /\ previous_complexity > complexity
            THEN [commit EXCEPT !.decreaseOfComplexityInComplexFunctions =
                     Accumulate(@, previous_complexity - complexity)]
            ELSE commit
    IN IF complexity > ComplexityThreshold /\ complexity > previous_complexity
       THEN [decreased EXCEPT !.increaseOfComplexityInComplexFunctions =
                Accumulate(@, complexity - previous_complexity)]
       ELSE decreased

\* Lines 129-133: the loop over the functions measured in one commit, for the
\* names still to do.  A name is measured once per commit, so the order of
\* the names does not change the outcome.
RECURSIVE ContributionsLoop(_, _, _, _, _)
ContributionsLoop(names, measured, known, function_complexities, commit) ==
    IF names = {}
    THEN [previous_function_complexities |-> function_complexities, commit |-> commit]
    ELSE LET function == CHOOSE n \in names : TRUE
             complexity == measured[function]
         IN ContributionsLoop(
               names \ {function}, measured, known,
               Put(function_complexities, function, complexity),
               IF InList(function, known)
               THEN update_complex_function_contribution_of_commit(
                       function_complexities, function, complexity, commit)
               ELSE commit)

\* Lines 116-122: the baseline, from the tree of the parent of the first commit.
analyzeComplexFunctionsContributions ==
    /\ pc = "analyzeComplexFunctionsContributions"
    /\ IF Len(data) = 0
       THEN Return /\ UNCHANGED <<i, previous_function_complexities>>
       ELSE /\ previous_function_complexities' =
                  calculate_function_complexities(
                     all_blobs_in_tree(ParentTree(ac[data[1]].commit)))
            /\ i' = 0
            /\ pc' = "analyzeComplexFunctionsContributions.for"
            /\ UNCHANGED pipeline
    /\ UNCHANGED <<log, program, message, runArgs, ac, data, previous_tree,
                   previous_commit, walk, complex_functions, table>>

\* Lines 124-135: one pass of the loop over data.
analyzeComplexFunctionsContributionsStep ==
    /\ pc = "analyzeComplexFunctionsContributions.for"
    /\ LET c == data[i + 1]
           modified_blobs == all_blobs_modified_by_commit(ac[c].commit)
           measured == calculate_function_complexities(modified_blobs)
           done == ContributionsLoop(DOMAIN measured, measured, complex_functions,
                                     previous_function_complexities, ac[c])
       IN /\ ac' = [ac EXCEPT ![c] = done.commit]
          /\ previous_function_complexities' = done.previous_function_complexities
    /\ i' = i + 1
    /\ IF i + 1 = Len(data) THEN Return ELSE UNCHANGED <<pc, pipeline>>
    /\ UNCHANGED <<log, program, message, runArgs, data, previous_tree,
                   previous_commit, walk, complex_functions, table>>

-----------------------------------------------------------------------------
(* gitanalyses.py: the windowed analyzers, one step of a loop at a time    *)

\* A windowed analyzer is called: its `for c in data` begins.
WalkCall(analyzer) ==
    /\ pc = analyzer
    /\ pc' = analyzer \o ".for"
    /\ i' = 0
    /\ UNCHANGED <<log, program, pipeline, message, runArgs, ac, data, previous_tree,
                   previous_commit, previous_function_complexities, walk,
                   complex_functions, table>>

\* `previous = c.previous` and `cutOff = c.commit.committed_date - interval`
WalkFrom(c, interval) ==
    [previous |-> ac[c].previous,
     cutOff |-> ac[c].commit.committed_date - interval,
     committers |-> {}]

\* `while previous is not None and previous.commit.committed_date > cutOff`
WalkGoesOn ==
    walk.previous # None /\ ac[walk.previous].commit.committed_date > walk.cutOff

\* A walk whose `previous = previous.previous` is left out.
WalkOn_stays == walk

\* `previous = previous.previous`
WalkOn == [walk EXCEPT !.previous = ac[walk.previous].previous]

\* The `for` of a windowed analyzer: the next commit of data is taken, with
\* what the analyzer sets before its walk, or the analyzer returns.
WalkFor(analyzer, interval, field, value) ==
    /\ pc = analyzer \o ".for"
    /\ IF i = Len(data)
       THEN Return /\ UNCHANGED <<i, walk, ac>>
       ELSE /\ i' = i + 1
            /\ walk' = WalkFrom(data[i + 1], interval)
            /\ ac' = [ac EXCEPT ![data[i + 1]][field] = value]
            /\ pc' = analyzer \o ".while"
            /\ UNCHANGED pipeline
    /\ UNCHANGED <<log, program, message, runArgs, data, previous_tree,
                   previous_commit, previous_function_complexities,
                   complex_functions, table>>

\* analyzeNumberOfActiveDevelopers, lines 26-29
forNumberOfActiveDevelopers ==
    WalkFor("analyzeNumberOfActiveDevelopers", activeCommitterInterval,
            "numberOfActiveDevelopers", ac[data[i + 1]].numberOfActiveDevelopers)

\* analyzeNumberOfActiveDevelopers, lines 30-34: one test of the while
whileNumberOfActiveDevelopers ==
    /\ pc = "analyzeNumberOfActiveDevelopers.while"
    /\ IF WalkGoesOn
       THEN /\ walk' = [WalkOn EXCEPT !.committers =
                           @ \cup {ac[walk.previous].commit.author}]
            /\ UNCHANGED <<pc, ac>>
       ELSE /\ ac' = [ac EXCEPT ![data[i]].numberOfActiveDevelopers =
                                    Cardinality(walk.committers)]
            /\ pc' = "analyzeNumberOfActiveDevelopers.for"
            /\ UNCHANGED walk
    /\ UNCHANGED <<log, program, pipeline, message, runArgs, data, i, previous_tree,
                   previous_commit, previous_function_complexities,
                   complex_functions, table>>

\* analyzeDaysSincePreviousCommit, lines 39-41
forDaysSincePreviousCommit ==
    WalkFor("analyzeDaysSincePreviousCommit", activeCommitterInterval,
            "daysSincePreviousCommitByDeveloper",
            ac[data[i + 1]].daysSincePreviousCommitByDeveloper)

\* analyzeDaysSincePreviousCommit, lines 43-47: one test of the while
whileDaysSincePreviousCommit ==
    /\ pc = "analyzeDaysSincePreviousCommit.while"
    /\ LET c == data[i]
       IN IF WalkGoesOn
          THEN IF ac[walk.previous].commit.author = ac[c].commit.author
               THEN /\ ac' = [ac EXCEPT ![c].daysSincePreviousCommitByDeveloper =
                                 PyInt(ac[c].commit.committed_date
                                          - ac[walk.previous].commit.committed_date,
                                       60 * 60 * 24)]
                    /\ pc' = "analyzeDaysSincePreviousCommit.for"
                    /\ UNCHANGED walk
               ELSE /\ walk' = WalkOn
                    /\ UNCHANGED <<pc, ac>>
          ELSE /\ pc' = "analyzeDaysSincePreviousCommit.for"
               /\ UNCHANGED <<walk, ac>>
    /\ UNCHANGED <<log, program, pipeline, message, runArgs, data, i, previous_tree,
                   previous_commit, previous_function_complexities,
                   complex_functions, table>>

\* analyzeNumberOfCommitsInSameDay, lines 54-57
forNumberOfCommitsInSameDay ==
    WalkFor("analyzeNumberOfCommitsInSameDay", 60 * 60 * 24,
            "numberOfCommitsInLast24h", 0)

\* analyzeNumberOfCommitsInSameDay, lines 59-61: one test of the while
whileNumberOfCommitsInSameDay ==
    /\ pc = "analyzeNumberOfCommitsInSameDay.while"
    /\ IF WalkGoesOn
       THEN /\ ac' = [ac EXCEPT ![data[i]].numberOfCommitsInLast24h = @ + 1]
            /\ walk' = WalkOn
            /\ UNCHANGED pc
       ELSE /\ pc' = "analyzeNumberOfCommitsInSameDay.for"
            /\ UNCHANGED <<walk, ac>>
    /\ UNCHANGED <<log, program, pipeline, message, runArgs, data, i, previous_tree,
                   previous_commit, previous_function_complexities,
                   complex_functions, table>>

-----------------------------------------------------------------------------
(* The runs                                                                *)

Init ==
    /\ log = <<>>
    /\ program = ""
    /\ pc = "repo"
    /\ pipeline = <<>>
    /\ message = ""
    /\ startTime = 0
    /\ endTime = 0
    /\ activeCommitterInterval = 0
    /\ filtered_authors = {}
    /\ filtered_commits = {}
    /\ filtered_files = {}
    /\ ac = <<>>
    /\ data = <<>>
    /\ i = 0
    /\ previous_tree = <<>>
    /\ previous_commit = BlobStats(None, None, None)
    /\ previous_function_complexities = <<>>
    /\ walk = [previous |-> None, cutOff |-> 0, committers |-> {}]
    /\ complex_functions = <<>>
    /\ table = <<>>

\* gitlyze is called: `calls` are the calls it makes after createDataSet,
\* `windowDays` the activity windows, in days, it can be called with.
gitlyzeCall(script, calls, intervalDays, windowDays, filters, files, known) ==
    /\ pc = "repo"
    /\ log # <<>>
    /\ program' = script
    /\ pc' = "createDataSet"
    /\ pipeline' = calls
    /\ startTime' = 0
    /\ \E arg \in intervalDays : endTime' = parseEndTime(0, arg)
    /\ \E days \in windowDays :
          activeCommitterInterval' = parseActiveCommiterInterval(days)
    /\ \E f \in filters :
          filtered_authors' = f[1] /\ filtered_commits' = f[2]
    /\ \E ff \in files : filtered_files' = ff
    /\ \E cc \in known : complex_functions' = cc
    /\ UNCHANGED <<log, message, ac, data, i, previous_tree, previous_commit,
                   previous_function_complexities, walk, table>>

\* main() and the first lines of gitlyze: the arguments are parsed and the
\* run begins.  main() stores the value of -a in a name it does not read
\* again, and parses activeCommitterIntervalArg, which keeps its default.
\* `known` are the lists -cc can name ([] without -cc).
StartOf(script, calls, intervalDays, filters, files, known) ==
    gitlyzeCall(script, calls, intervalDays, {activeCommitterIntervalArg},
                filters, files, known)

\* The activity model: histories with any dates, authors and merges; the run
\* is followed through the three windowed analyzers.
GitCommit ==
    GitCommitOf(MaxCommits, Dates, Authors, TRUE, {}, {}, FALSE)

Start ==
    StartOf("gitlyze.py",
            <<"analyzeNumberOfActiveDevelopers",
             "analyzeDaysSincePreviousCommit",
             "analyzeNumberOfCommitsInSameDay">>,
            IntervalDays, Filters, {{}}, {<<>>})

Next ==
    \/ GitCommit
    \/ Start
    \/ createDataSet
    \/ analyzeNumberOfActiveDevelopers
    \/ analyzeDaysSincePreviousCommit
    \/ analyzeNumberOfCommitsInSameDay

Spec == Init /\ [][Next]_vars

\* The size model: histories of source files, one commit every half day by
\* one author; the run is followed through analyzeSizeAndComplexity, or
\* through find_complex_functions.
SizePaths == {Path("a", "c"), Path("b", "c")}
SizeBlobs == {1, 2, 3}

GitCommitSize ==
    GitCommitOf(MaxSizeCommits, {TimeUnit * Len(log)}, {"alice"}, FALSE,
                SizePaths, SizeBlobs, FALSE)

StartSize ==
    \/ StartOf("gitlyze.py", <<"analyzeSizeAndComplexity">>,
               {MaxSizeCommits}, {<<{}, {}>>, <<{}, {3}>>}, {{}}, {<<>>})
    \/ StartOf("find-complex-functions.py", <<"find_complex_functions">>,
               {MaxSizeCommits}, {<<{}, {}>>, <<{}, {3}>>}, {{}}, {<<>>})

NextSize ==
    \/ GitCommitSize
    \/ StartSize
    \/ createDataSet
    \/ analyzeSizeAndComplexity
    \/ analyzeSizeAndComplexityStep
    \/ find_complex_functions
    \/ find_complex_functionsStep

SpecSize == Init /\ [][NextSize]_vars

\* The snapshot model: histories in which a commit changes any number of
\* files at once (added, modified, deleted, renamed, with and without a
\* supported extension); the run is followed through analyzeSizeAndComplexity.
SnapPaths == {Path("a", "c"), Path("b", "c"), Path("r", "md")}
SnapBlobs == {1, 2}

GitCommitSnap ==
    GitCommitOf(MaxSnapCommits, {TimeUnit * Len(log)}, {"alice"}, FALSE,
                SnapPaths, SnapBlobs, TRUE)

StartSnap ==
    StartOf("gitlyze.py", <<"analyzeSizeAndComplexity">>,
            {MaxSnapCommits}, {<<{}, {}>>}, {{}}, {<<>>})

NextSnap ==
    \/ GitCommitSnap
    \/ StartSnap
    \/ createDataSet
    \/ analyzeSizeAndComplexity
    \/ analyzeSizeAndComplexityStep

SpecSnap == Init /\ [][NextSnap]_vars

\* The finder model: histories of source files whose functions are complex,
\* two of them with the same distinguished name; the run is
\* find-complex-functions.py, with and without a -ff filter.
FindPaths == {Path("a", "c"), Path("a.c", "c")}
FindBlobs == {1, 2, 6, 7}
FilteredFiles == {{}, {Path("a", "c")}}

GitCommitFind ==
    GitCommitOf(MaxFindCommits, {TimeUnit * Len(log)}, {"alice"}, FALSE,
                FindPaths, FindBlobs, FALSE)

StartFind ==
    StartOf("find-complex-functions.py", <<"find_complex_functions">>,
            {MaxFindCommits}, {<<{}, {}>>, <<{}, {2}>>}, FilteredFiles, {<<>>})

NextFind ==
    \/ GitCommitFind
    \/ StartFind
    \/ createDataSet
    \/ find_complex_functions
    \/ find_complex_functionsStep

SpecFind == Init /\ [][NextFind]_vars

\* The edit-distance model: histories of short texts; the run is followed
\* through analyzeLevenshteinDistance and tabulate.
DistPaths == {Path("a", "c"), Path("r", "md")}
DistBlobs == {4, 5}

GitCommitDist ==
    GitCommitOf(MaxDistCommits, {TimeUnit * Len(log)}, {"alice"}, TRUE,
                DistPaths, DistBlobs, FALSE)

StartDist ==
    StartOf("gitlyze.py", <<"analyzeLevenshteinDistance", "tabulate">>,
            {MaxDistCommits},
            {<<{}, {}>>, <<{}, {2}>>, <<{}, {3}>>}, {{}}, {<<>>})

NextDist ==
    \/ GitCommitDist
    \/ StartDist
    \/ createDataSet
    \/ analyzeLevenshteinDistance
    \/ tabulate

SpecDist == Init /\ [][NextDist]_vars

\* The hunk model: histories of one source file whose text changes in
\* several places at once; the run is followed through
\* analyzeLevenshteinDistance and tabulate.
HunkPaths == {Path("a", "c")}
HunkBlobs == {4, 12, 13, 14}

GitCommitHunk ==
    GitCommitOf(MaxHunkCommits, {TimeUnit * Len(log)}, {"alice"}, FALSE,
                HunkPaths, HunkBlobs, FALSE)

StartHunk ==
    StartOf("gitlyze.py", <<"analyzeLevenshteinDistance", "tabulate">>,
            {MaxHunkCommits}, {<<{}, {}>>}, {{}}, {<<>>})

NextHunk ==
    \/ GitCommitHunk
    \/ StartHunk
    \/ createDataSet
    \/ analyzeLevenshteinDistance
    \/ tabulate

SpecHunk == Init /\ [][NextHunk]_vars

\* The contribution model: histories of two source files whose functions
\* move around the threshold; the run is followed through
\* analyzeComplexFunctionsContributions with a list of known functions.
ContributionPaths == {Path("a", "c"), Path("b", "c")}
ContributionBlobs == {1, 2, 8, 9, 10, 11}
KnownLists == {<<"a.c.f">>, <<"a.c.f", "a.c.g">>}

GitCommitContribution ==
    GitCommitOf(MaxContributionCommits, {TimeUnit * Len(log)}, {"alice"}, FALSE,
                ContributionPaths, ContributionBlobs, FALSE)

StartContribution ==
    StartOf("gitlyze.py", <<"analyzeComplexFunctionsContributions">>,
            {MaxContributionCommits}, {<<{}, {}>>}, {{}}, KnownLists)

NextContribution ==
    \/ GitCommitContribution
    \/ StartContribution
    \/ createDataSet
    \/ analyzeComplexFunctionsContributions
    \/ analyzeComplexFunctionsContributionsStep

SpecContribution == Init /\ [][NextContribution]_vars

\* The pipeline model: histories of one source file; the run goes through
\* all the analyzers of gitlyze, in its order, and tabulate.
PipelinePaths == {Path("a", "c")}
PipelineBlobs == {1, 2, 4}

GitCommitPipeline ==
    GitCommitOf(MaxPipelineCommits, {TimeUnit * Len(log)}, {"alice", "bot"}, FALSE,
                PipelinePaths, PipelineBlobs, FALSE)

StartPipeline ==
    StartOf("gitlyze.py",
            <<"analyzeNumberOfActiveDevelopers",
             "analyzeDaysSincePreviousCommit",
             "analyzeNumberOfCommitsInSameDay",
             "analyzeLevenshteinDistance",
             "analyzeSizeAndComplexity",
             "analyzeComplexFunctionsContributions",
             "tabulate">>,
            {MaxPipelineCommits}, {<<{}, {}>>, <<{"bot"}, {}>>}, {{}}, {<<"a.c.f">>})

NextPipeline ==
    \/ GitCommitPipeline
    \/ StartPipeline
    \/ createDataSet
    \/ analyzeNumberOfActiveDevelopers
    \/ analyzeDaysSincePreviousCommit
    \/ analyzeNumberOfCommitsInSameDay
    \/ analyzeLevenshteinDistance
    \/ analyzeSizeAndComplexity
    \/ analyzeSizeAndComplexityStep
    \/ analyzeComplexFunctionsContributions
    \/ analyzeComplexFunctionsContributionsStep
    \/ tabulate

SpecPipeline == Init /\ [][NextPipeline]_vars

\* The walk model: histories by two authors, with commits a day and a month
\* apart; gitlyze is called with a window of 0 days, of 1 day and of 30 days
\* (the one main() passes), and the three windowed analyzers are followed
\* one step of their loops at a time.  A run does not stop while it has a
\* step to take.
WalkDates == {TimeUnit, 3 * TimeUnit, 32 * SecondsPerDay}
WalkWindowDays == {0, 1, activeCommitterIntervalArg}
WalkedAnalyzers ==
    <<"analyzeNumberOfActiveDevelopers",
      "analyzeDaysSincePreviousCommit",
      "analyzeNumberOfCommitsInSameDay">>

GitCommitWalk ==
    GitCommitOf(MaxWalkCommits, WalkDates, Authors, FALSE, {}, {}, FALSE)

StartWalk ==
    gitlyzeCall("gitlyze.py", WalkedAnalyzers, {33}, WalkWindowDays,
                {<<{}, {}>>}, {{}}, {<<>>})

NextWalk ==
    \/ GitCommitWalk
    \/ StartWalk
    \/ createDataSet
    \/ \E k \in DOMAIN WalkedAnalyzers : WalkCall(WalkedAnalyzers[k])
    \/ forNumberOfActiveDevelopers
    \/ whileNumberOfActiveDevelopers
    \/ forDaysSincePreviousCommit
    \/ whileDaysSincePreviousCommit
    \/ forNumberOfCommitsInSameDay
    \/ whileNumberOfCommitsInSameDay

SpecWalk == Init /\ [][NextWalk]_vars /\ WF_vars(NextWalk)

-----------------------------------------------------------------------------
(* The claims                                                              *)

\* The totals stored on a record, as one value.
Totals(record) ==
    BlobStats(record.loc, record.cyclomaticComplexity, record.functions)

\* The deltas stored on a record, as one value.
Deltas(record) ==
    BlobStats(record.deltaLoc, record.deltaCyclomaticComplexity, record.deltaFunctions)

\* The totals of a tree measured from scratch: every supported file of it.
FullMeasure(tree) == aggregate_stats_from_blobs(analyze_tree(tree))

Minus(x, y) ==
    BlobStats(x.loc - y.loc, x.cyclomaticComplexity - y.cyclomaticComplexity,
              x.functions - y.functions)

\* analyzeSizeAndComplexity has stored its fields on record c.
Sized(c) == ac[c].loc # None

\* C1: the loc, cyclomaticComplexity and functions recorded on an analyzable
\* commit equal the totals of its tree measured from scratch.
C1_IncrementalConsistency ==
    \A c \in DataSet :
       Sized(c) => Totals(ac[c]) = FullMeasure(ac[c].commit.tree)

\* A commit that is not analyzable has added a file between two analyzable
\* commits, and the totals recorded on the second are not those of its tree.
C1_Witness ==
    \E k \in 2..Len(data) :
       /\ Sized(data[k])
       /\ ac[data[k]].previous # data[k - 1]
       /\ ac[data[k]].commit.tree = ParentTree(ac[data[k]].commit)
       /\ ac[data[k]].loc = 0
       /\ FullMeasure(ac[data[k]].commit.tree).loc > 0

\* C2, as claimed: the recorded deltas are the totals of the commit minus the
\* totals of its predecessor in the chain, C.previous (for the first
\* analyzable commit: the measured totals of the tree of its parent).
C2_DeltaAgainstChainPrevious ==
    \A k \in 1..Len(data) :
       LET c == data[k]
           base == IF k = 1 THEN FullMeasure(ParentTree(ac[c].commit))
                   ELSE Totals(ac[ac[c].previous])
       IN Sized(c) => /\ base.loc # None
                      /\ Deltas(ac[c]) = Minus(Totals(ac[c]), base)

\* C2, amended: the recorded deltas are the totals of the commit minus the
\* totals of its predecessor in the analyzable sequence (for the first
\* analyzable commit: the measured totals of the tree of its parent).
C2_DeltaAgainstPreviousAnalyzable ==
    \A k \in 1..Len(data) :
       LET c == data[k]
           base == IF k = 1 THEN FullMeasure(ParentTree(ac[c].commit))
                   ELSE Totals(ac[data[k - 1]])
       IN Sized(c) => /\ base.loc # None
                      /\ Deltas(ac[c]) = Minus(Totals(ac[c]), base)

\* A commit whose predecessor in the chain is not analyzable has got a delta
\* that is not zero, after an analyzable commit with totals that differ in
\* lines and complexity.
C2_Witness ==
    \E k \in 2..Len(data) :
       /\ Sized(data[k])
       /\ ac[data[k]].previous # data[k - 1]
       /\ ac[data[k]].deltaLoc # 0
       /\ ac[data[k - 1]].loc # ac[data[k - 1]].cyclomaticComplexity

\* The only change of the commit is a rename of a supported file to another
\* supported path, the content unchanged.
RenameOnly(commit) ==
    \E p, q \in AllPaths :
       /\ p # q /\ extension_supported(p) /\ extension_supported(q)
       /\ ParentTree(commit)[p] # NoBlob
       /\ ParentTree(commit)[q] = NoBlob
       /\ commit.tree = [ParentTree(commit) EXCEPT ![p] = NoBlob,
                                                   ![q] = ParentTree(commit)[p]]

\* C5: a commit that only renames a supported file to another supported path
\* gets deltaLoc = 0, delta complexity = 0 and delta functions = 0; once it is
\* processed the old path is not in the snapshot and the new path is, with
\* the stats of the file.
C5_RenameDeltaZero ==
    \A k \in 1..Len(data) :
       LET commit == ac[data[k]].commit
       IN Sized(data[k]) /\ RenameOnly(commit) =>
             /\ Deltas(ac[data[k]]) = BlobStats(0, 0, 0)
             /\ (program = "gitlyze.py" /\ i = k) =>
                   \A p \in AllPaths :
                      /\ (ParentTree(commit)[p] # NoBlob /\ commit.tree[p] = NoBlob)
                            => p \notin DOMAIN previous_tree
                      /\ (ParentTree(commit)[p] = NoBlob /\ commit.tree[p] # NoBlob)
                            => /\ p \in DOMAIN previous_tree
                               /\ previous_tree[p] = blob_stats(commit.tree[p])

\* A commit that only renames a file added by a commit that is not
\* analyzable has got deltas that are the stats of the file.
C5_Witness ==
    \E k \in 2..Len(data) :
       /\ Sized(data[k])
       /\ RenameOnly(ac[data[k]].commit)
       /\ ac[data[k]].previous # data[k - 1]
       /\ Deltas(ac[data[k]]) = FullMeasure(ac[data[k]].commit.tree)
       /\ ac[data[k]].deltaLoc > 0

\* The history of C6: a root and three single-parent commits, all analyzable;
\* the second adds at path p a file with one function of complexity 3, the
\* third changes that function to complexity 20 and nothing else.
C6_History(p) ==
    /\ Len(log) = 4 /\ data = <<2, 3, 4>>
    /\ rawCommits[2].tree[p] = NoBlob
    /\ rawCommits[3].tree[p] # NoBlob
    /\ rawCommits[4].tree[p] # NoBlob
    /\ \A q \in AllPaths \ {p} :
          /\ rawCommits[3].tree[q] = rawCommits[2].tree[q]
          /\ rawCommits[4].tree[q] = rawCommits[3].tree[q]
    /\ LET before == Blob(rawCommits[3].tree[p]).function_list
           after == Blob(rawCommits[4].tree[p]).function_list
       IN /\ Len(before) = 1 /\ Len(after) = 1
          /\ before[1].name = after[1].name
          /\ before[1].cyclomatic_complexity = 3
          /\ after[1].cyclomatic_complexity = 20

\* The file has 10 lines when added and 12 after the third commit.
C6_FileLines(p) ==
    /\ Blob(rawCommits[3].tree[p]).lines = 10
    /\ Blob(rawCommits[4].tree[p]).lines = 12

\* lizard counts 10 lines of code in the function when added and 12 after.
C6_FunctionLines(p) ==
    /\ Blob(rawCommits[3].tree[p]).function_list[1].nloc = 10
    /\ Blob(rawCommits[4].tree[p]).function_list[1].nloc = 12

\* What C6 expects of the finder and of the aggregator, once they are done.
C6_Reported(p) ==
    /\ (program = "find-complex-functions.py" /\ pc = "done") =>
          LET name == distinguished_name(p, Blob(rawCommits[4].tree[p]).function_list[1].name)
          IN name \in DOMAIN complex_functions /\ complex_functions[name] = 20
    /\ (program = "gitlyze.py" /\ pc = "done") =>
          /\ ac[4].deltaLoc = 2
          /\ ac[4].deltaFunctions = 0
          /\ ac[4].deltaCyclomaticComplexity = 17
          /\ ac[4].cyclomaticComplexity = ac[3].cyclomaticComplexity + 17

\* C6, as claimed: in the scenario, with a file of 10 and then 12 lines, the
\* finder reports the function with maximum complexity 20 and the aggregator
\* records deltaLoc = 2, deltaFunctions = 0, deltaCyclomaticComplexity = 17
\* and cyclomaticComplexity = that of the commit before + 17.
C6_Scenario ==
    \A p \in AllPaths :
       extension_supported(p) /\ C6_History(p) /\ C6_FileLines(p) => C6_Reported(p)

\* C6, amended: the same, when the two lines the file gains are lines of code
\* of the function (lizard counts 10 and then 12 lines in it).
C6_ScenarioFunctionLines ==
    \A p \in AllPaths :
       extension_supported(p) /\ C6_History(p) /\ C6_FileLines(p)
          /\ C6_FunctionLines(p) => C6_Reported(p)

\* The scenario has been run to its end by the aggregator.
C6_Witness ==
    \E p \in AllPaths :
       /\ extension_supported(p) /\ C6_History(p) /\ C6_FileLines(p)
       /\ C6_FunctionLines(p)
       /\ program = "gitlyze.py" /\ pc = "done"
       /\ ac[4].deltaLoc = 2

-----------------------------------------------------------------------------
(* The claims about createDataSet and the windowed analyzers               *)

\* createDataSet has built the chain.
Built == pc \notin {"repo", "createDataSet"} /\ message # GitCommandFailed

\* The commit matches the author filter or the commit filter.
Filtered(commit) == filter_match(commit, filtered_authors, filtered_commits)

\* The inclusion predicate of the claim: committed strictly between start and
\* end, exactly one parent, and matched by neither filter.
Qualifies(commit) ==
    /\ startTime < commit.committed_date /\ commit.committed_date < endTime
    /\ Len(commit.parents) = 1
    /\ commit.author \notin filtered_authors
    /\ commit.hexsha \notin filtered_commits

\* The position of the commit with this hexsha in the log as delivered
\* (newest first).
LogPosition(hexsha) == CHOOSE k \in 1..Len(log) : log[k].hexsha = hexsha

\* C3: data holds exactly the commits of the log that qualify, each once, the
\* oldest first (a record of data comes later in the log as delivered than the
\* records after it); no merge commit and no root commit is in data.
C3_DataIsTheQualifyingCommits ==
    Built =>
       /\ \A k \in 1..Len(log) :
             Cardinality({j \in 1..Len(data) : ac[data[j]].commit = log[k]})
                = IF Qualifies(log[k]) THEN 1 ELSE 0
       /\ \A j \in 1..Len(data) : \E k \in 1..Len(log) : ac[data[j]].commit = log[k]
       /\ \A j, k \in 1..Len(data) :
             j < k => /\ LogPosition(ac[data[j]].commit.hexsha)
                           > LogPosition(ac[data[k]].commit.hexsha)
                      /\ data[j] < data[k]
       /\ \A j \in 1..Len(data) : Len(ac[data[j]].commit.parents) = 1

\* Of three commits, the second is in data; the root commit is not, nor is
\* the third, which has one parent and is dated exactly at the end.
C3_Witness ==
    /\ Built /\ Len(log) = 3 /\ data = <<2>>
    /\ Len(log[1].parents) = 1 /\ log[1].committed_date = endTime
    /\ ~Filtered(log[1])

\* The chain positions before c whose records a walk from c reaches with the
\* window w: all of them back to the first one dated at or before the cutoff.
InWindow(c, w) ==
    {r \in 1..(c - 1) :
        \A k \in r..(c - 1) :
           rawCommits[k].committed_date > rawCommits[c].committed_date - w}

\* The last record by the author of c among those of InWindow(c, w), or None.
NearestSameAuthor(c, w) ==
    LET same == {r \in InWindow(c, w) : rawCommits[r].author = rawCommits[c].author}
    IN IF same = {} THEN None ELSE CHOOSE r \in same : \A o \in same : o <= r

\* C4: a commit excluded by the filters is never in data, but it has its
\* record in the chain, linked to its neighbours, and for every analyzable C
\* that has it in its window: its author is among the developers counted on
\* C, it is among the commits counted in C's last 24 hours, and when it is the
\* nearest record by C's author, it sets C's days since the previous commit.
C4_FilteredCommitsStayInHistory ==
    Built =>
       \A x \in 1..Len(rawCommits) :
          Filtered(rawCommits[x]) =>
             /\ x \notin DataSet
             /\ x \in DOMAIN ac /\ ac[x].commit = rawCommits[x]
             /\ (x > 1) => ac[x].previous = x - 1 /\ ac[x - 1].next = x
             /\ (x < Len(rawCommits)) => ac[x].next = x + 1 /\ ac[x + 1].previous = x
             /\ \A c \in DataSet :
                   /\ (ac[c].numberOfActiveDevelopers # None
                          /\ x \in InWindow(c, activeCommitterInterval)) =>
                         ac[c].numberOfActiveDevelopers =
                            Cardinality({rawCommits[r].author :
                                           r \in InWindow(c, activeCommitterInterval)})
                   /\ (ac[c].numberOfCommitsInLast24h # None
                          /\ x \in InWindow(c, SecondsPerDay)) =>
                         ac[c].numberOfCommitsInLast24h =
                            Cardinality(InWindow(c, SecondsPerDay))
                   /\ (pc = "done" /\ x = NearestSameAuthor(c, activeCommitterInterval)) =>
                         ac[c].daysSincePreviousCommitByDeveloper =
                            PyInt(rawCommits[c].committed_date
                                     - rawCommits[x].committed_date, SecondsPerDay)

\* A filtered commit is the only record in the window of an analyzable commit
\* by the same author: it is the one developer counted, the one commit of the
\* last 24 hours, and it sets the days since the previous commit.
C4_Witness ==
    /\ Built /\ pc = "done"
    /\ \E c \in DataSet : \E x \in 1..Len(rawCommits) :
          /\ Filtered(rawCommits[x])
          /\ InWindow(c, activeCommitterInterval) = {x}
          /\ InWindow(c, SecondsPerDay) = {x}
          /\ x = NearestSameAuthor(c, activeCommitterInterval)
          /\ ac[c].numberOfActiveDevelopers = 1
          /\ ac[c].numberOfCommitsInLast24h = 1
          /\ ac[c].daysSincePreviousCommitByDeveloper = 0

\* The window lengths, in days, the analyzers are compared for.
WindowDays == {0, 1, 2, 29, 30, 31}

WindowLengths == {parseActiveCommiterInterval(d) : d \in WindowDays}

\* C7: for an analyzable commit, the developer count of a window is at most
\* that of any longer window, so the count recorded by the run lies between
\* those of the shorter and of the longer windows; and the recorded count of
\* commits in the last 24 hours is the one the chain alone determines,
\* whatever the activity window of the run.
C7_WindowMonotonic ==
    Built =>
       \A c \in DataSet :
          /\ \A w1, w2 \in WindowLengths :
                w1 <= w2 => NumberOfActiveDevelopers(c, w1) <= NumberOfActiveDevelopers(c, w2)
          /\ ac[c].numberOfActiveDevelopers # None =>
                \A w \in WindowLengths :
                   /\ w <= activeCommitterInterval =>
                         NumberOfActiveDevelopers(c, w) <= ac[c].numberOfActiveDevelopers
                   /\ w >= activeCommitterInterval =>
                         ac[c].numberOfActiveDevelopers <= NumberOfActiveDevelopers(c, w)
          /\ ac[c].numberOfCommitsInLast24h # None =>
                ac[c].numberOfCommitsInLast24h = Cardinality(InWindow(c, SecondsPerDay))

\* A commit whose developer count grows strictly with the window, analyzed in
\* a run whose window is not one day.
C7_Witness ==
    /\ Built /\ pc = "done"
    /\ activeCommitterInterval # SecondsPerDay
    /\ \E c \in DataSet :
          /\ ac[c].numberOfCommitsInLast24h = 1
          /\ \E w1, w2 \in WindowLengths :
                /\ w1 < w2
                /\ NumberOfActiveDevelopers(c, w1) < NumberOfActiveDevelopers(c, w2)
                /\ ac[c].numberOfActiveDevelopers = NumberOfActiveDevelopers(c, w2)

\* The records a walk over the previous links from record r visits.
RECURSIVE WalkPrevious(_)
WalkPrevious(r) ==
    IF ac[r].previous = None THEN {} 
    ELSE {ac[r].previous} \cup WalkPrevious(ac[r].previous)

\* C10: every commit of the log has exactly one record in the chain; the record
\* of the oldest has previous = None and is the only one, that of the newest
\* has next = None and is the only one; r.previous.next is r and
\* r.next.previous is r wherever the link exists; and the walk over previous
\* from an analyzable record visits all the commits of the log before it.
C10_ChainIsConsistent ==
    Built =>
       /\ \A k \in 1..Len(log) :
             Cardinality({r \in DOMAIN ac : ac[r].commit = log[k]}) = 1
       /\ Cardinality(DOMAIN ac) = Len(log)
       /\ \A r \in DOMAIN ac :
             /\ ac[r].previous = None <=> ac[r].commit = log[Len(log)]
             /\ ac[r].next = None <=> ac[r].commit = log[1]
             /\ ac[r].previous # None =>
                   ac[r].previous \in DOMAIN ac /\ ac[ac[r].previous].next = r
             /\ ac[r].next # None =>
                   ac[r].next \in DOMAIN ac /\ ac[ac[r].next].previous = r
       /\ \A c \in DataSet :
             {ac[r].commit.hexsha : r \in WalkPrevious(c)}
                = {log[k].hexsha : k \in (LogPosition(ac[c].commit.hexsha) + 1)..Len(log)}

\* A chain of three records in which the middle one is not analyzable and the
\* last one is.
C10_Witness ==
    /\ Built /\ Len(log) = 3 /\ data = <<3>>

-----------------------------------------------------------------------------
(* The claims about the edit distance, the report and the errors           *)

\* No file with a supported extension differs between the commit's tree and
\* its parent's.
NoSupportedChange(commit) ==
    \A p \in AllPaths :
       extension_supported(p) => ParentTree(commit)[p] = commit.tree[p]

\* The rows of the report below its header.
Rows == Tail(table)

NonZeroDistance(c) == ac[c].levenshteinDistance # 0

\* C8: after analyzeLevenshteinDistance, an analyzable commit whose diff
\* against its parent changes no file with a supported extension has the edit
\* distance 0; and the report has no row for a commit whose edit distance is
\* 0 and exactly one row for each other record of data, in the order of data.
C8_ZeroDistanceNoRow ==
    /\ (Built /\ pc \in {"tabulate", "done"}) =>
          \A c \in DataSet :
             NoSupportedChange(ac[c].commit) => ac[c].levenshteinDistance = 0
    /\ table # <<>> =>
          LET expected == SelectSeq(data, NonZeroDistance)
          IN /\ Len(Rows) = Len(expected)
             /\ \A k \in 1..Len(Rows) :
                   /\ Rows[k][1] = ac[expected[k]].commit.hexsha
                   /\ Rows[k][7] = ac[expected[k]].levenshteinDistance
                   /\ Rows[k][7] # 0
             /\ \A c \in DataSet :
                   Cardinality({k \in 1..Len(Rows) : Rows[k][1] = ac[c].commit.hexsha})
                      = IF ac[c].levenshteinDistance = 0 THEN 0 ELSE 1

\* The second commit changes only the file without a supported extension and
\* has no row; the third changes the source file and has the only row.
C8_Witness ==
    /\ pc = "done" /\ data = <<2, 3>>
    /\ ac[2].commit.tree # ParentTree(ac[2].commit)
    /\ NoSupportedChange(ac[2].commit)
    /\ ac[2].levenshteinDistance = 0
    /\ ac[3].levenshteinDistance > 0
    /\ Len(table) = 2 /\ table[2][1] = 3

\* No field that an analyzer computes is set on any record.
NothingAnalyzed ==
    \A r \in DOMAIN ac :
       /\ ac[r].numberOfActiveDevelopers = None
       /\ ac[r].daysSincePreviousCommitByDeveloper = None
       /\ ac[r].numberOfCommitsInLast24h = None
       /\ ac[r].levenshteinDistance = None
       /\ ac[r].loc = None

\* After createDataSet: when no commit of the log qualifies, or the log could
\* not be listed, the run is in the error state with the message reported;
\* and in the error state nothing is analyzed and there is no report.
C9_ErrorState ==
    (pc \notin {"repo", "createDataSet"}) =>
       /\ ((\A k \in 1..Len(log) : ~Qualifies(log[k])) \/ message = GitCommandFailed) =>
             pc = "error"
       /\ pc = "error" =>
             /\ message \in {NoCommitsFound, GitCommandFailed}
             /\ NothingAnalyzed
             /\ table = <<>>

\* C9: if no commit of the log satisfies the inclusion predicate, or listing
\* the log fails, createDataSet reports an error and the run halts in the
\* error state: no step is taken from it, so no analyzer runs afterwards and no
\* report is produced.
C9_ErrorHalts == []C9_ErrorState /\ [][pc # "error"]_vars

\* The run has halted on a log whose only commits are the root commit and a
\* commit the commit filter matches.
C9_Witness ==
    /\ pc = "error" /\ message = NoCommitsFound
    /\ Len(log) = 2 /\ Filtered(log[1])
    /\ pipeline # <<>> /\ table = <<>>

-----------------------------------------------------------------------------
(* The claims about the finder                                             *)

FinderDone == program = "find-complex-functions.py" /\ pc = "done"

\* The measurements of the walk: the distinguished name and the complexity of
\* every function of every blob scanned for a commit of data, the blobs of
\* the files in filtered_files left out.
Observed ==
    UNION {
       UNION {
          {[name |-> distinguished_name(b.path, Blob(b.blob).function_list[f].name),
            cc |-> Blob(b.blob).function_list[f].cyclomatic_complexity] :
              f \in 1..Len(Blob(b.blob).function_list)} :
          b \in {x \in blobs_to_scan(k, ac[data[k]].commit) :
                    x.path \notin filtered_files}} :
       k \in 1..Len(data)}

\* C11: when find_complex_functions has completed, a name is a key of the
\* result iff some measurement of the walk saw a complexity > 15 for it, and
\* its value is the greatest complexity any measurement of the walk saw for
\* that name.
C11_MaxOfObservations ==
    FinderDone =>
       /\ DOMAIN complex_functions = {o.name : o \in {x \in Observed : x.cc > 15}}
       /\ \A n \in DOMAIN complex_functions :
             /\ \E o \in Observed : o.name = n /\ o.cc = complex_functions[n]
             /\ \A o \in Observed : o.name = n => o.cc <= complex_functions[n]

\* The function was measured with complexity 25 and then, in the next commit,
\* with complexity 20: the result holds 25.
C11_Witness ==
    /\ FinderDone /\ data = <<2, 3>> /\ filtered_files = {}
    /\ rawCommits[2].tree[Path("a", "c")] = 6
    /\ rawCommits[3].tree[Path("a", "c")] = 2
    /\ "a.c.f" \in DOMAIN complex_functions
    /\ complex_functions["a.c.f"] = 25

\* The distinguished names of the functions of complexity > 15 in the
\* supported files of a tree that filtered_files does not name.
ComplexInTree(tree) ==
    UNION {{distinguished_name(p, Blob(tree[p]).function_list[f].name) :
              f \in {g \in 1..Len(Blob(tree[p]).function_list) :
                       Blob(tree[p]).function_list[g].cyclomatic_complexity > 15}} :
           p \in {q \in AllPaths : /\ tree[q] # NoBlob
                                   /\ extension_supported(q)
                                   /\ q \notin filtered_files}}

\* C12: when find_complex_functions has completed, every function of
\* complexity > 15 in a supported, unfiltered file of the tree of an
\* analyzable commit is a key of the result.
C12_FinderComplete ==
    FinderDone =>
       \A c \in DataSet :
          ComplexInTree(ac[c].commit.tree) \subseteq DOMAIN complex_functions

\* Every analyzable commit but the first has the analyzable commit before it
\* as its parent.
NoGaps == \A k \in 2..Len(data) : ac[data[k]].commit.parents[1] = data[k - 1]

\* The finder has completed on a history in which a commit that is not
\* analyzable lies between two analyzable ones; the tree of the last has a
\* function of complexity > 15 that the result does not hold.
C12_Witness ==
    /\ FinderDone /\ ~NoGaps
    /\ \E c \in DataSet :
          ComplexInTree(ac[c].commit.tree) \ DOMAIN complex_functions # {}

\* C12 on the histories without such a commit in between.
C12_CompleteWithoutGaps == NoGaps => C12_FinderComplete

-----------------------------------------------------------------------------
(* The claims about the order of the chain and the snapshot                *)

\* C13: in the chain createDataSet builds, the committed time of every record
\* is strictly greater than that of its previous record.
C13_ChainAscendingInTime ==
    Built =>
       \A r \in DOMAIN ac :
          ac[r].previous # None =>
             ac[ac[r].previous].commit.committed_date < ac[r].commit.committed_date

\* The chain is built, an analyzable commit has the committed time of its
\* parent, and the commit after it is committed before both.
C13_Witness ==
    /\ Built /\ Len(log) = 3 /\ 2 \in DataSet
    /\ ac[2].previous = 1 /\ ac[3].previous = 2
    /\ ac[1].commit.committed_date = ac[2].commit.committed_date
    /\ ac[3].commit.committed_date < ac[2].commit.committed_date

\* The commit the loop of analyzeSizeAndComplexity processes next.
NextSized == ac[data[i + 1]].commit

\* C14: when the snapshot, before an analyzable commit is processed, is the
\* full measurement of the tree of the commit's parent, then the snapshot
\* after tree_delta is applied with apply_delta_to_tree is the full
\* measurement of the commit's tree.
C14_SnapshotStep ==
    [][(/\ pc = "analyzeSizeAndComplexity.for"
        /\ previous_tree = analyze_tree(ParentTree(NextSized)))
          => previous_tree' = analyze_tree(NextSized.tree)]_vars

\* A commit that deletes one source file, adds or modifies another and
\* changes a file without a supported extension has been processed, and the
\* snapshot is the measurement of its tree.
C14_Witness ==
    /\ program = "gitlyze.py" /\ pc = "done" /\ i = Len(data) /\ i > 0
    /\ LET commit == ac[data[i]].commit
       IN /\ \E d \in CommitDiff(commit) :
                d.change_type = "D" /\ extension_supported(d.a_path)
          /\ \E d \in CommitDiff(commit) :
                d.change_type \in {"A", "M"} /\ extension_supported(d.b_path)
          /\ \E d \in CommitDiff(commit) : ~extension_supported(d.b_path)
          /\ previous_tree = analyze_tree(commit.tree)

-----------------------------------------------------------------------------
(* The claims about the contributions to the known complex functions       *)

\* The loop of analyzeComplexFunctionsContributions is about to take a commit.
Stepping == pc = "analyzeComplexFunctionsContributions.for"

\* The functions re-measured in the files commit c touched, by name.
Measured(c) ==
    calculate_function_complexities(all_blobs_modified_by_commit(ac[c].commit))

\* The map's last recorded value of a name, 0 if absent.
LastRecorded(name) ==
    IF name \in DOMAIN previous_function_complexities
    THEN previous_function_complexities[name] ELSE 0

\* The re-measured functions of commit c that are in the known list.
KnownMeasured(c) == {name \in DOMAIN Measured(c) : InList(name, complex_functions)}

RECURSIVE SumOf(_, _)
SumOf(names, amount) ==
    IF names = {} THEN 0
    ELSE LET name == CHOOSE n \in names : TRUE
         IN amount[name] + SumOf(names \ {name}, amount)

\* The decrease and the increase the rule gives commit c.
DecreaseOf(c) ==
    SumOf(KnownMeasured(c),
          [name \in KnownMeasured(c) |->
             IF LastRecorded(name) > 11 /\ Measured(c)[name] < LastRecorded(name)
             THEN LastRecorded(name) - Measured(c)[name] ELSE 0])

IncreaseOf(c) ==
    SumOf(KnownMeasured(c),
          [name \in KnownMeasured(c) |->
             IF Measured(c)[name] > 11 /\ Measured(c)[name] > LastRecorded(name)
             THEN Measured(c)[name] - LastRecorded(name) ELSE 0])

\* A field that grows by an amount; an unset field counts from 0 and stays
\* unset when nothing is added.
Grown(field, amount) ==
    IF amount = 0 THEN field
    ELSE (IF field = None THEN 0 ELSE field) + amount

\* C15: when the tracker processes commit C, every re-measured function of
\* the known list, with p the map's last value (0 if absent) and n the new
\* complexity, adds p - n to C's decrease field if p > 11 and n < p, and
\* n - p to C's increase field if n > 11 and n > p; nothing else changes
\* the two fields, so functions outside the known list never do.
C15_AttributionRule ==
    [][Stepping =>
          LET c == data[i + 1]
          IN /\ ac'[c].decreaseOfComplexityInComplexFunctions =
                   Grown(ac[c].decreaseOfComplexityInComplexFunctions, DecreaseOf(c))
             /\ ac'[c].increaseOfComplexityInComplexFunctions =
                   Grown(ac[c].increaseOfComplexityInComplexFunctions, IncreaseOf(c))
             /\ \A r \in DOMAIN ac \ {c} : ac'[r] = ac[r]]_vars

\* Both commits of a history are processed: the first adds a.c with f (20)
\* and g (30), both known, and its increase is the sum 50; the second
\* lowers f and gets a decrease.
C15_Witness ==
    /\ program = "gitlyze.py"
    /\ Len(data) = 2 /\ i = 2
    /\ complex_functions = <<"a.c.f", "a.c.g">>
    /\ ac[data[1]].increaseOfComplexityInComplexFunctions = 50
    /\ ac[data[2]].decreaseOfComplexityInComplexFunctions > 0

\* The two fields of a record are left as they were by a step.
FieldsUnchanged(c) ==
    /\ ac'[c].decreaseOfComplexityInComplexFunctions =
          ac[c].decreaseOfComplexityInComplexFunctions
    /\ ac'[c].increaseOfComplexityInComplexFunctions =
          ac[c].increaseOfComplexityInComplexFunctions

\* C16 as stated: when the tracker processes commit C and every re-measured
\* function of the known list has a last recorded value of at most 11, or
\* none, neither field of C changes.
C16_OnlyAlreadyComplex ==
    [][Stepping =>
          LET c == data[i + 1]
          IN (\A name \in KnownMeasured(c) : LastRecorded(name) <= 11)
                => FieldsUnchanged(c)]_vars

\* C16: when the tracker processes commit C, its decrease field changes only
\* if a re-measured function of the known list had a last recorded value
\* above 11, and its increase field changes only if such a function has a
\* new complexity above 11, whatever its last recorded value; if every such
\* function is at most 11 before and after, neither field changes.
C16_ThresholdOnEitherSide ==
    [][Stepping =>
          LET c == data[i + 1]
          IN /\ ac'[c].decreaseOfComplexityInComplexFunctions #
                   ac[c].decreaseOfComplexityInComplexFunctions
                => \E name \in KnownMeasured(c) : LastRecorded(name) > 11
             /\ ac'[c].increaseOfComplexityInComplexFunctions #
                   ac[c].increaseOfComplexityInComplexFunctions
                => \E name \in KnownMeasured(c) : Measured(c)[name] > 11
             /\ (\A name \in KnownMeasured(c) :
                    LastRecorded(name) <= 11 /\ Measured(c)[name] <= 11)
                => FieldsUnchanged(c)]_vars

\* The root holds a.c with f at 3; the first analyzable commit raises f to
\* 12 and is given the increase 9, and a later one lowers f to 11 or less
\* from 12 and is given a decrease.
C16_Witness ==
    /\ program = "gitlyze.py"
    /\ data = <<2, 3>> /\ i = 2
    /\ InList("a.c.f", complex_functions)
    /\ ac[1].commit.tree[Path("a", "c")] = 1
    /\ ac[2].commit.tree[Path("a", "c")] = 9
    /\ ac[2].increaseOfComplexityInComplexFunctions = 9
    /\ ac[3].decreaseOfComplexityInComplexFunctions # None

\* The entries of the diff of commit c that add, modify or rename a
\* supported file.
TouchedFiles(c) ==
    {d \in CommitDiff(ac[c].commit) :
        /\ d.change_type = "A" \/ d.change_type = "M" \/ Renamed(d.change_type)
        /\ extension_supported(d.b_path)}

\* The names of the functions found in the new content of a touched file.
NamesIn(d) ==
    {distinguished_name(d.b_path, Blob(d.b_blob).function_list[k].name) :
        k \in DOMAIN Blob(d.b_blob).function_list}

TouchedNames(c) == UNION {NamesIn(d) : d \in TouchedFiles(c)}

\* The complexity measured for a name in a touched file: that of the last
\* function of the file that goes by the name.
NewlyMeasured(d, name) ==
    LET function_list == Blob(d.b_blob).function_list
        named == {k \in DOMAIN function_list :
                    distinguished_name(d.b_path, function_list[k].name) = name}
    IN function_list[CHOOSE k \in named : \A j \in named : j <= k].cyclomatic_complexity

\* C17: after the tracker has processed commit C, the map holds, for every
\* function name found in a file C added, modified or renamed, the newly
\* measured complexity, known or not and whatever the threshold; every other
\* entry is as it was before C, and no entry is removed.
C17_MapUpdateAndFrame ==
    [][Stepping =>
          LET c == data[i + 1]
          IN /\ \A d \in TouchedFiles(c) : \A name \in NamesIn(d) :
                   /\ name \in DOMAIN previous_function_complexities'
                   /\ previous_function_complexities'[name] = NewlyMeasured(d, name)
             /\ \A name \in DOMAIN previous_function_complexities \ TouchedNames(c) :
                   /\ name \in DOMAIN previous_function_complexities'
                   /\ previous_function_complexities'[name] =
                         previous_function_complexities[name]
             /\ DOMAIN previous_function_complexities' =
                   DOMAIN previous_function_complexities \cup TouchedNames(c)]_vars

\* The last processed commit renamed a.c to b.c: the map holds the entry of
\* b.c.f, which is in no known list and at most 11, and still that of a.c.f.
C17_Witness ==
    /\ program = "gitlyze.py"
    /\ pc # "analyzeComplexFunctionsContributions"
    /\ i >= 1 /\ i <= Len(data)
    /\ \E d \in TouchedFiles(data[i]) :
          /\ Renamed(d.change_type)
          /\ d.a_path = Path("a", "c") /\ d.b_path = Path("b", "c")
    /\ {"a.c.f", "b.c.f"} \subseteq DOMAIN previous_function_complexities
    /\ previous_function_complexities["b.c.f"] <= 11

-----------------------------------------------------------------------------
(* The claims about the values of the windowed analyzers                   *)

\* The run has been through the windowed analyzers.
Analyzed == Built /\ pc = "done" /\ program = "gitlyze.py"

\* The window of the run, in whole days.
WindowInDays == activeCommitterInterval \div SecondsPerDay

\* C18: for every analyzable commit C, when the walk over the previous links
\* inside C's window reaches a record by C's author, the days since the
\* previous commit are floor((C.time - P.time) / 86400) for the nearest such
\* record P, which is at least 0 and less than the window in days; when it
\* reaches none, the field is unset.
C18_DaysSincePreviousCommit ==
    Analyzed =>
       \A c \in DataSet :
          LET P == NearestSameAuthor(c, activeCommitterInterval)
              days == ac[c].daysSincePreviousCommitByDeveloper
          IN IF P = None THEN days = None
             ELSE /\ days = (rawCommits[c].committed_date
                                - rawCommits[P].committed_date) \div SecondsPerDay
                  /\ days >= 0
                  /\ days < WindowInDays

\* The committed dates never decrease along the history.
DatesAscend ==
    \A k \in 1..(Len(rawCommits) - 1) :
       rawCommits[k].committed_date <= rawCommits[k + 1].committed_date

\* The same statement for the histories whose committed dates never decrease.
C18_InAscendingHistories == DatesAscend => C18_DaysSincePreviousCommit

\* An analyzable commit whose nearest record by the same author carries a
\* later committed date, a day or more ahead: the days recorded are negative.
C18_Witness ==
    /\ Analyzed
    /\ \E c \in DataSet :
          LET P == NearestSameAuthor(c, activeCommitterInterval)
          IN /\ P # None
             /\ rawCommits[P].committed_date
                   >= rawCommits[c].committed_date + SecondsPerDay
             /\ ac[c].daysSincePreviousCommitByDeveloper < 0
             /\ ac[c].daysSincePreviousCommitByDeveloper # None

\* C19: for every analyzable commit C, numberOfActiveDevelopers is the number
\* of distinct authors among the chain records the walk over the previous
\* links from C visits while the committed time is above C.time - window:
\* the records before C back to the first one at or below the cutoff.
C19_ActiveDevelopers ==
    Analyzed =>
       \A c \in DataSet :
          ac[c].numberOfActiveDevelopers =
             Cardinality({rawCommits[r].author :
                            r \in InWindow(c, activeCommitterInterval)})

\* The third commit has the two commits before it in its window, by two
\* authors, and counts 2.
C19_Witness ==
    /\ Analyzed
    /\ 3 \in DataSet
    /\ InWindow(3, activeCommitterInterval) = {1, 2}
    /\ rawCommits[1].author # rawCommits[2].author
    /\ ac[3].numberOfActiveDevelopers = 2

-----------------------------------------------------------------------------
(* The claims about the hunks of blob_delta                                *)

\* A removed line and an added line of a diff; the two header lines are
\* neither.
RemovedLine(line) == startswith(line, <<"-">>) /\ ~startswith(line, <<"-", "-", "-">>)

AddedLine(line) == startswith(line, <<"+">>) /\ ~startswith(line, <<"+", "+", "+">>)

ChangedLine(line) == RemovedLine(line) \/ AddedLine(line)

\* The hunks of a diff: the maximal runs of removed and added lines, each
\* known by its first and its last line.
Hunks(diff) ==
    {h \in (1..Len(diff)) \X (1..Len(diff)) :
        /\ h[1] <= h[2]
        /\ \A k \in h[1]..h[2] : ChangedLine(diff[k])
        /\ h[1] = 1 \/ ~ChangedLine(diff[h[1] - 1])
        /\ h[2] = Len(diff) \/ ~ChangedLine(diff[h[2] + 1])}

\* The concatenated text of the removed (prefix "-") or added (prefix "+")
\* lines of the lines k..e of a diff.
RECURSIVE HunkText(_, _, _, _)
HunkText(diff, k, e, prefix) ==
    IF k > e THEN <<>>
    ELSE (IF startswith(diff[k], prefix) THEN Tail(diff[k]) ELSE <<>>)
         \o HunkText(diff, k + 1, e, prefix)

\* The sum over the hunks of the distance between removed and added text.
RECURSIVE HunkSum(_, _)
HunkSum(diff, hunks) ==
    IF hunks = {} THEN 0
    ELSE LET h == CHOOSE g \in hunks : TRUE
         IN editdistance(HunkText(diff, h[1], h[2], <<"-">>),
                         HunkText(diff, h[1], h[2], <<"+">>))
            + HunkSum(diff, hunks \ {h})

\* The edit distances of the run have been computed.
Measured_Distance == Built /\ pc \in {"tabulate", "done"} /\ program = "gitlyze.py"

\* The diff of a commit that does nothing but modify one supported file.
ModifiesOneFile(c) ==
    \E d \in CommitDiff(ac[c].commit) :
       /\ CommitDiff(ac[c].commit) = {d}
       /\ d.change_type = "M" /\ extension_supported(d.b_path)

TextDiff(c) ==
    LET d == CHOOSE e \in CommitDiff(ac[c].commit) : TRUE
    IN GitDiff(Blob(d.a_blob).text, Blob(d.b_blob).text)

\* C20: the distance blob_delta gives a modified file is the sum, over the
\* hunks of the diff, of the edit distance between the hunk's removed text
\* and its added text, a hunk of removals only or of additions only counting
\* against the empty string; no removed text passes from a hunk to a later one.
C20_HunkGrouping ==
    Measured_Distance =>
       \A c \in DataSet :
          ModifiesOneFile(c) =>
             ac[c].levenshteinDistance = HunkSum(TextDiff(c), Hunks(TextDiff(c)))

\* The same statement for the diffs in which no run of removed lines is
\* followed by a context line and, later, by another hunk.
NoRemovalCarried(diff) ==
    \A h \in Hunks(diff) :
       (\A k \in h[1]..h[2] : RemovedLine(diff[k]))
          => \A g \in Hunks(diff) : g[1] <= h[1]

C20_WhenNoRemovalIsCarried ==
    Measured_Distance =>
       \A c \in DataSet :
          (ModifiesOneFile(c) /\ NoRemovalCarried(TextDiff(c))) =>
             ac[c].levenshteinDistance = HunkSum(TextDiff(c), Hunks(TextDiff(c)))

\* A commit turns the lines a, k, b into k, ab: the diff removes a, keeps k
\* and replaces b by ab, two hunks of distance 1 each; the commit is given
\* the distance 0 and has no row in the table.
C20_Witness ==
    /\ Measured_Distance /\ pc = "done"
    /\ \E c \in DataSet :
          /\ ModifiesOneFile(c)
          /\ Cardinality(Hunks(TextDiff(c))) = 2
          /\ HunkSum(TextDiff(c), Hunks(TextDiff(c))) = 2
          /\ ac[c].levenshteinDistance = 0
          /\ \A r \in DOMAIN Rows : Rows[r][1] # ac[c].commit.hexsha

-----------------------------------------------------------------------------
(* The claims about the whole pipeline                                     *)

\* Field `field` of record r is changed by the step.
Written(r, field) == ac'[r][field] # ac[r][field]

\* The derived fields, and for each the positions of the run at which its
\* analyzer writes.
FieldOwner ==
    [numberOfActiveDevelopers |-> {"analyzeNumberOfActiveDevelopers"},
     daysSincePreviousCommitByDeveloper |-> {"analyzeDaysSincePreviousCommit"},
     numberOfCommitsInLast24h |-> {"analyzeNumberOfCommitsInSameDay"},
     levenshteinDistance |-> {"analyzeLevenshteinDistance"},
     loc |-> {"analyzeSizeAndComplexity.for"},
     deltaLoc |-> {"analyzeSizeAndComplexity.for"},
     cyclomaticComplexity |-> {"analyzeSizeAndComplexity.for"},
     deltaCyclomaticComplexity |-> {"analyzeSizeAndComplexity.for"},
     functions |-> {"analyzeSizeAndComplexity.for"},
     deltaFunctions |-> {"analyzeSizeAndComplexity.for"},
     increaseOfComplexityInComplexFunctions |->
        {"analyzeComplexFunctionsContributions.for"},
     decreaseOfComplexityInComplexFunctions |->
        {"analyzeComplexFunctionsContributions.for"}]

\* C21: once createDataSet has returned, no step changes the set of chain
\* records, nor the commit, the previous link or the next link of a record;
\* a derived field of a record changes only in a step of the one analyzer
\* that owns it, so a later analyzer leaves the fields of the earlier ones
\* as they were.
C21_FieldOwnership ==
    [][Built =>
          /\ DOMAIN ac' = DOMAIN ac
          /\ \A r \in DOMAIN ac :
                /\ ~Written(r, "commit")
                /\ ~Written(r, "previous")
                /\ ~Written(r, "next")
                /\ \A field \in DOMAIN FieldOwner :
                      Written(r, field) => pc \in FieldOwner[field]]_vars

\* The run is over: the second commit was given an increase, and the third
\* carries a value in every other derived field, each written by its
\* analyzer, with the links as createDataSet made them.
C21_Witness ==
    /\ pc = "done" /\ program = "gitlyze.py" /\ Len(log) = 3
    /\ data = <<2, 3>>
    /\ ac[2].increaseOfComplexityInComplexFunctions # None
    /\ \A field \in DOMAIN FieldOwner \ {"increaseOfComplexityInComplexFunctions"} :
          ac[3][field] # None
    /\ ac[3].previous = 2 /\ ac[2].next = 3

-----------------------------------------------------------------------------
(* The claims about the totals and the snapshot                            *)

\* The sums of the stats over all the entries of the baseline snapshot.
SnapshotSum ==
    BlobStats(SumOf(DOMAIN previous_tree, [p \in DOMAIN previous_tree |-> previous_tree[p].loc]),
              SumOf(DOMAIN previous_tree,
                    [p \in DOMAIN previous_tree |-> previous_tree[p].cyclomaticComplexity]),
              SumOf(DOMAIN previous_tree,
                    [p \in DOMAIN previous_tree |-> previous_tree[p].functions]))

\* analyzeSizeAndComplexity has processed the first i commits of data, i > 0.
PrefixSized ==
    /\ program = "gitlyze.py"
    /\ pc \in {"analyzeSizeAndComplexity.for", "done"}
    /\ i >= 1 /\ i <= Len(data)

\* C22: after analyzeSizeAndComplexity has processed a prefix of data, the
\* loc, cyclomaticComplexity and functions recorded on the last processed
\* commit are the sums of those stats over the entries of the snapshot, in
\* every history, and none of them is negative.
C22_TotalsAreSnapshotSums ==
    PrefixSized =>
       /\ Totals(ac[data[i]]) = SnapshotSum
       /\ ac[data[i]].loc >= 0
       /\ ac[data[i]].cyclomaticComplexity >= 0
       /\ ac[data[i]].functions >= 0

\* Commit 3 is filtered and adds b.c, commit 4 deletes it: the snapshot never
\* held b.c, and before commit 4 was processed it was not the tree of
\* commit 3; commit 4 has been processed and its totals are above 0.
C22_Witness ==
    /\ PrefixSized
    /\ data = <<2, 4>> /\ i = 2
    /\ ParentTree(ac[3].commit)[Path("b", "c")] = NoBlob
    /\ ac[3].commit.tree[Path("b", "c")] # NoBlob
    /\ \E d \in CommitDiff(ac[4].commit) :
          d.change_type = "D" /\ d.a_path = Path("b", "c")
    /\ ac[4].loc > 0

-----------------------------------------------------------------------------
(* The claims about the walk of the finder                                 *)

\* The finder is in its walk, or has ended it.
FinderWalking ==
    /\ program = "find-complex-functions.py"
    /\ pc \in {"find_complex_functions.for", "done"}

\* Every value of the result map is above the threshold of the finder.
AllAboveFifteen ==
    FinderWalking => \A name \in DOMAIN complex_functions : complex_functions[name] > 15

\* C23: during the walk of find_complex_functions every value of the result
\* map is above 15, and processing a commit removes no key and lowers no
\* value.
C23_MapOnlyGrows ==
    /\ []AllAboveFifteen
    /\ [][pc = "find_complex_functions.for" =>
             \A name \in DOMAIN complex_functions :
                /\ name \in DOMAIN complex_functions'
                /\ complex_functions'[name] >= complex_functions[name]]_vars

\* The first analyzable commit holds a.c with f at 25 and the next lowers f
\* to 20: the walk is over and the map still holds 25 for a.c.f.
C23_Witness ==
    /\ FinderWalking /\ pc = "done"
    /\ data = <<2, 3>> /\ i = 2
    /\ ac[2].commit.tree[Path("a", "c")] = 6
    /\ ac[3].commit.tree[Path("a", "c")] = 2
    /\ "a.c.f" \in DOMAIN complex_functions
    /\ complex_functions["a.c.f"] = 25

-----------------------------------------------------------------------------
(* The claims about the termination of the windowed analyzers              *)

\* The run is inside the call of this analyzer.
Inside(analyzer) ==
    pc \in {analyzer, analyzer \o ".for", analyzer \o ".while"}

\* The analyzer, once called, returns.
Finishes(analyzer) == (pc = analyzer) ~> ~Inside(analyzer)

\* A step of the analyzer that takes a commit takes the next one of data,
\* and a step by which it returns is taken after the last one.
VisitsEachOnce(analyzer) ==
    /\ (pc = analyzer \o ".for" /\ pc' = analyzer \o ".while")
          => i' = i + 1 /\ i' <= Len(data)
    /\ (pc = analyzer \o ".while") => i' = i
    /\ (Inside(analyzer) /\ ~Inside(analyzer)') => i = Len(data)

\* The walk of the commit being visited is at a record before the commit, or
\* past the head of the chain.
WalkInChain ==
    (\E k \in DOMAIN WalkedAnalyzers : pc = WalkedAnalyzers[k] \o ".while")
       => walk.previous = None \/ walk.previous \in 1..(data[i] - 1)

\* C24: each of the three windowed analyzers, once called, returns, whatever
\* the chain and the window (0, a day, or longer than the history); its walk
\* stays among the records before the commit it visits, and it takes the
\* commits of data one after the other, each once, before it returns.
C24_WalksTerminate ==
    /\ Finishes("analyzeNumberOfActiveDevelopers")
    /\ Finishes("analyzeDaysSincePreviousCommit")
    /\ Finishes("analyzeNumberOfCommitsInSameDay")
    /\ []WalkInChain
    /\ [][/\ VisitsEachOnce("analyzeNumberOfActiveDevelopers")
          /\ VisitsEachOnce("analyzeDaysSincePreviousCommit")
          /\ VisitsEachOnce("analyzeNumberOfCommitsInSameDay")]_vars

\* A run with the window 0 is over: no developer was counted on either
\* commit of data, and the 24h walk of the last commit went to the head of
\* the chain.
C24_Witness ==
    /\ pc = "done" /\ program = "gitlyze.py"
    /\ activeCommitterInterval = 0
    /\ data = <<2, 3>> /\ i = 2
    /\ ac[2].numberOfActiveDevelopers = 0 /\ ac[3].numberOfActiveDevelopers = 0
    /\ ac[3].numberOfCommitsInLast24h = 2
    /\ walk.previous = None

\* The same for a window longer than the history: both earlier commits are
\* in the window of the last one, and the walk ended at previous = None.
C24_LongWindow ==
    /\ pc = "done" /\ program = "gitlyze.py"
    /\ activeCommitterInterval = parseActiveCommiterInterval(activeCommitterIntervalArg)
    /\ data = <<2, 3>> /\ i = 2
    /\ rawCommits[1].author # rawCommits[2].author
    /\ ac[3].numberOfActiveDevelopers = 2
    /\ walk.previous = None

-----------------------------------------------------------------------------
(* The claims about the two fields of the tracker                          *)

\* What one re-measured function of commit c adds, taken alone: the record
\* the update gives when the two fields are unset.
Alone(c, name) ==
    update_complex_function_contribution_of_commit(
        previous_function_complexities, name, Measured(c)[name],
        AnnotatedCommit(ac[c].commit))

Amount(field) == IF field = None THEN 0 ELSE field

\* Each of the two fields of every record is unset or above 0.
UnsetOrPositive ==
    \A r \in DOMAIN ac :
       /\ ac[r].increaseOfComplexityInComplexFunctions = None
             \/ ac[r].increaseOfComplexityInComplexFunctions > 0
       /\ ac[r].decreaseOfComplexityInComplexFunctions = None
             \/ ac[r].decreaseOfComplexityInComplexFunctions > 0

\* C25: each of the two fields of a record is unset or strictly positive;
\* when the tracker processes commit C, no re-measured function adds to both
\* fields, and a field of C that is set afterwards is the sum of what the
\* functions of C add to it one by one.
C25_FieldsAreSumsOfContributions ==
    /\ []UnsetOrPositive
    /\ [][Stepping =>
             LET c == data[i + 1]
             IN /\ \A name \in KnownMeasured(c) :
                      \/ Alone(c, name).increaseOfComplexityInComplexFunctions = None
                      \/ Alone(c, name).decreaseOfComplexityInComplexFunctions = None
                /\ ac'[c].increaseOfComplexityInComplexFunctions # None =>
                      ac'[c].increaseOfComplexityInComplexFunctions =
                         SumOf(KnownMeasured(c),
                               [name \in KnownMeasured(c) |->
                                  Amount(Alone(c, name).increaseOfComplexityInComplexFunctions)])
                /\ ac'[c].decreaseOfComplexityInComplexFunctions # None =>
                      ac'[c].decreaseOfComplexityInComplexFunctions =
                         SumOf(KnownMeasured(c),
                               [name \in KnownMeasured(c) |->
                                  Amount(Alone(c, name).decreaseOfComplexityInComplexFunctions)])]_vars

\* The first commit of data adds a.c with f (20) and g (30), both known: its
\* increase is 50 and its decrease is unset; the second leaves a.c with f at
\* 5: its decrease is 15 and its increase is unset.
C25_Witness ==
    /\ program = "gitlyze.py" /\ pc = "done"
    /\ data = <<2, 3>> /\ i = 2
    /\ complex_functions = <<"a.c.f", "a.c.g">>
    /\ ac[2].increaseOfComplexityInComplexFunctions = 50
    /\ ac[2].decreaseOfComplexityInComplexFunctions = None
    /\ ac[3].decreaseOfComplexityInComplexFunctions = 15
    /\ ac[3].increaseOfComplexityInComplexFunctions = None

====
